---- MODULE Spec2Model ----
(***************************************************************************)
(* Model of the organization synchronization pipeline of next-git:         *)
(* lib/syncOrganizationRepos.js (syncOrganizationRepos) and lib/github.js  *)
(* (getPackageJsonContent), over a store holding the organizations,        *)
(* repositories and packageJson tables.                                    *)
(***************************************************************************)
EXTENDS Integers, Sequences, FiniteSets, TLC

\* ------------------------------------------------------------------------
\* Bounds of the model
\* ------------------------------------------------------------------------
\* number of repositories the remote organization lists
NRepos == 3
\* number of consecutive syncOrganizationRepos invocations explored
MaxRuns == 2
\* number of changes of a remote package.json file over a behaviour
MaxRemoteChanges == 2
\* number of environment faults (store errors, transient remote errors,
\* failed commits, failed disconnects) over a behaviour
MaxFaults == 1
\* repositories processed concurrently in one batch: 10 in the source,
\* scaled down so that a listing of NRepos repositories spans two batches
BATCH_SIZE == 2
\* page size of the repository listing: 100 in the source, scaled likewise
PER_PAGE == 2
\* number of analyzeAndSave calls, which may run concurrently
MaxAnalyses == 2
\* length of the longest repository listing GitHubService.getOrgRepos pages
\* through
MaxRequests == 3
MaxListing == 5
MaxServiceRepos == 3
concurrencyLimit == 2
\* length of the longest list given to batchAnalyze
MaxBatchList == 3
\* entries of one batch of batchAnalyze: 50 by default in the source, scaled
\* down so that a list of MaxBatchList entries spans two batches
batchSize == 2

\* ------------------------------------------------------------------------
\* Constants of the program
\* ------------------------------------------------------------------------
\* milliseconds of the pause between two batches
DELAY_BETWEEN_BATCHES == 2000

\* ------------------------------------------------------------------------
\* Values
\* ------------------------------------------------------------------------
Null == "null"
Undefined == "undefined"
EmptyObject == "{}"

OrgName == "acme"
\* another organization
OtherOrgName == "globex"
GithubIds == 1..NRepos

\* The fields syncOrganizationRepos copies out of a parsed manifest.
\* Two manifest documents: DocA declares every field, DocB omits some.
DocA ==
    [name |-> "pkg-a", version |-> "1.0.0", description |-> "first",
     author |-> "Jane", license |-> "MIT", dependencies |-> "{lodash}",
     devDependencies |-> "{jest}", scripts |-> "{build}"]
DocB ==
    [name |-> "pkg-b", version |-> "2.0.0", license |-> "ISC",
     scripts |-> "{test}"]
Docs == {DocA, DocB}

\* property read of a parsed document: a missing property reads undefined
Prop(doc, f) == IF f \in DOMAIN doc THEN doc[f] ELSE Undefined

\* JavaScript `x || {}`
OrEmptyObject(x) == IF x \in {Undefined, Null, ""} THEN EmptyObject ELSE x

\* File texts: the serialisation of a document, text that is no JSON, and
\* the empty text.
TextOf(doc) == [kind |-> "json", doc |-> doc]
Garbage == [kind |-> "garbage", doc |-> DocB]
EmptyText == [kind |-> "empty", doc |-> DocB]
Texts == {TextOf(d) : d \in Docs} \cup {Garbage, EmptyText}

\* mutant: JSON.parse accepts any text
JSONParseLenient(text) == [ok |-> TRUE, value |-> text.doc]

\* JSON.parse: the document of a JSON text, a SyntaxError otherwise
JSONParse(text) ==
    IF text.kind = "json" THEN [ok |-> TRUE, value |-> text.doc]
    ELSE [ok |-> FALSE, value |-> DocB]

\* transport encoding of a file body and its decoding
Base64(text) == [b64 |-> text]
Base64Decode(enc) == enc.b64

\* JavaScript truthiness of a decoded content string
Truthy(text) == text.kind # "empty"

\* ------------------------------------------------------------------------
\* The remote hosting API
\* ------------------------------------------------------------------------
RepoNames == <<"api", "web", "docs", "cli", "infra", "site">>

\* the names a repository may be given: one more than there are repositories
NameIds == 1..(NRepos + 1)

\* One entry of the organization's repository listing: repository g under
\* the name n
RepoDescriptor(g, n) ==
    [id |-> g, name |-> RepoNames[n], full_name |-> <<OrgName, RepoNames[n]>>,
     html_url |-> <<"https://github.com", OrgName, RepoNames[n]>>,
     default_branch |-> IF g % 2 = 0 THEN Null ELSE "master",
     description |-> IF g % 2 = 0 THEN "a repository" ELSE Null,
     owner |-> [login |-> OrgName]]

\* A remote package.json: absent, or a stored file body
NoFile == [exists |-> FALSE, content |-> Base64(EmptyText)]
FileOf(text) == [exists |-> TRUE, content |-> Base64(text)]
RemoteFiles == {NoFile} \cup {FileOf(t) : t \in Texts}

\* What octokit.repos.getContent yields for a file: the file (status 200),
\* or a request error carrying a status (0 stands for an error without one)
ContentOk(file) == [ok |-> TRUE, status |-> 200, data |-> [content |-> file.content]]
ContentErr(st) == [ok |-> FALSE, status |-> st, data |-> [content |-> Base64(EmptyText)]]
TransientStatuses == {0, 403, 500}

\* lib/github.js getPackageJsonContent: never throws
getPackageJsonContent(resp) ==
    IF resp.ok
    THEN [content |-> Base64Decode(resp.data.content), hasContent |-> TRUE,
          status |-> resp.status]
    ELSE IF resp.status = 404
    THEN [content |-> EmptyText, hasContent |-> FALSE, status |-> 404]
    ELSE [content |-> EmptyText, hasContent |-> FALSE,
          status |-> IF resp.status = 0 THEN 500 ELSE resp.status]

\* ------------------------------------------------------------------------
\* State
\* ------------------------------------------------------------------------
VARIABLES
    organizations,      \* committed rows of the organizations table
    repositories,       \* committed rows of the repositories table
    packageJsons,       \* committed rows of the packageJson table
    nextId,             \* next generated id of each table
    remote,             \* remote[g]: the package.json of repository g
    names,              \* names[g]: the name repository g has on the remote,
                        \* Unlisted once the organization lists it no more
    clock,              \* value of new Date(): the number of the running sync
    pc,                 \* position of syncOrganizationRepos
    organization,       \* its local `organization`
    allRepos,           \* its local `allRepos`
    i,                  \* its loop variable `i`
    unit,               \* unit[g]: the batch callback of repository g
    successCount, noPackageJsonCount, errorCount,
    ret,                \* what the last invocation gave its caller
    before,             \* the store when the running invocation was called
    prevRet,            \* what the invocation before the last gave its caller
    remoteChanged,      \* a remote file changed since the previous invocation
    log,                \* the batches formed and the pauses taken by the run
    changes, faults,    \* remote changes and faults so far
    projects,           \* committed rows of the projects table
    children,           \* committed rows of the four child tables of a project
    nextProjectId,      \* next generated id of the projects table
    analysis,           \* analysis[c]: the analyzeAndSave call c
    request,            \* a content request of the octokit client
    other,              \* position of an invocation for another organization
    lost,               \* units of work whose transaction the client has lost
    lister,             \* a call of GitHubService.getOrgRepos
    batchCall,          \* a call of PackageAnalyzerService.batchAnalyze
    depsCall,           \* a call of prepareDependenciesData
    endpoint,           \* a request of POST /api/fetch-package-json
    service             \* a call of GitHubService.processOrgPackageJsons

store == <<organizations, repositories, packageJsons, nextId>>
locals == <<organization, allRepos, i, unit>>
counters == <<successCount, noPackageJsonCount, errorCount>>
history == <<before, prevRet, remoteChanged, log>>
analyzer == <<projects, children, nextProjectId, analysis>>
\* what no step of syncOrganizationRepos reads or writes
github == <<lister>>
elsewhere == <<analyzer, batchCall, request, other, lost, github, depsCall, endpoint, service>>
sync == <<store, remote, names, clock, pc, locals, counters, ret, history, changes>>
vars == <<sync, faults, elsewhere>>

\* names[g] of a repository the organization does not list
Unlisted == 0
\* the repositories the organization lists, and the k-th of them
Listed == {g \in GithubIds : names[g] # Unlisted}
NthListed(k) == CHOOSE g \in Listed : Cardinality({h \in Listed : h < g}) = k - 1

\* The listing of the organization, in listing order
OrgListing ==
    [k \in 1..Cardinality(Listed) |-> RepoDescriptor(NthListed(k), names[NthListed(k)])]

NoRow == [id |-> 0]
NoReturn == [returned |-> FALSE]
Thrown(msg) == [returned |-> FALSE, exception |-> msg]

\* ------------------------------------------------------------------------
\* The store
\* ------------------------------------------------------------------------
\* hasPackageJson of a repository created without the field
DefaultHasPackageJson == FALSE

FindOrganization(orgs, name) ==
    IF \E o \in orgs : o.name = name
    THEN CHOOSE o \in orgs : o.name = name ELSE NoRow

\* prisma.organization.upsert({where: {name}, update: {}, create: {name}})
UpsertOrganization(orgs, id, name, now) ==
    IF FindOrganization(orgs, name) # NoRow
    THEN FindOrganization(orgs, name)
    ELSE [id |-> id, name |-> name, githubId |-> Null,
          createdAt |-> now, updatedAt |-> now]

\* the primary key and the two unique constraints (name, github_id) of the
\* organizations table; the schema is SQL Server's, where a unique
\* constraint counts NULL as a value, so that two rows without a github_id
\* collide
OrganizationConflict(orgs, row) ==
    \E o \in orgs :
        o # row /\ (o.id = row.id \/ o.name = row.name \/ o.githubId = row.githubId)

FindRepository(repos, githubId) ==
    IF \E r \in repos : r.githubId = githubId
    THEN CHOOSE r \in repos : r.githubId = githubId ELSE NoRow

\* the commonRepoData of one listing entry
CommonRepoData(org, githubRepo, now) ==
    [organizationId |-> org.id,
     name |-> githubRepo.name,
     fullName |-> githubRepo.full_name,
     url |-> githubRepo.html_url,
     defaultBranch |-> IF githubRepo.default_branch \in {Null, Undefined, ""}
                       THEN "main" ELSE githubRepo.default_branch,
     description |-> githubRepo.description,
     githubId |-> githubRepo.id,
     lastFetchedAt |-> now]

\* mutant: the update part of the upsert also resets hasPackageJson
UpsertRepositoryResetsFlag(repos, id, data, now) ==
    LET old == FindRepository(repos, data.githubId) IN
    [f \in DOMAIN data \cup {"id", "hasPackageJson", "createdAt", "updatedAt"} |->
        IF f \in DOMAIN data THEN data[f]
        ELSE IF f = "hasPackageJson" THEN DefaultHasPackageJson
        ELSE IF old # NoRow THEN old[f]
        ELSE IF f = "id" THEN id
        ELSE now]

\* tx.repository.upsert({where: {githubId}, update: data, create: data}):
\* the row as the transaction sees it afterwards
UpsertRepository(repos, id, data, now) ==
    LET old == FindRepository(repos, data.githubId) IN
    IF old # NoRow
    THEN [f \in DOMAIN old |-> IF f \in DOMAIN data THEN data[f] ELSE old[f]]
    ELSE [f \in DOMAIN data \cup {"id", "hasPackageJson", "createdAt", "updatedAt"} |->
             IF f \in DOMAIN data THEN data[f]
             ELSE IF f = "id" THEN id
             ELSE IF f = "hasPackageJson" THEN DefaultHasPackageJson
             ELSE now]

\* mutant: the store does not enforce the unique constraints
RepositoryConflictIgnored(repos, row) == FALSE

\* a unique constraint of the repositories table (full_name, github_id)
\* that writing `row` would break
RepositoryConflict(repos, row) ==
    \E r \in repos : r.id # row.id /\ (r.fullName = row.fullName \/ r.githubId = row.githubId)

\* tx.repositories.upsert({where: {full_name}, update, create}) of the
\* single-repository endpoint: the row as the transaction sees it afterwards
UpsertRepositoryByFullName(repos, id, org, repoDetails, now) ==
    LET found == {r \in repos : r.fullName = repoDetails.full_name}
        data == [name |-> repoDetails.name, description |-> repoDetails.description,
                 url |-> repoDetails.html_url,
                 defaultBranch |-> repoDetails.default_branch,
                 githubId |-> repoDetails.id, lastFetchedAt |-> now]
    IN  IF found # {}
        THEN LET old == CHOOSE r \in found : TRUE IN
             [f \in DOMAIN old |-> IF f \in DOMAIN data THEN data[f] ELSE old[f]]
        ELSE [f \in DOMAIN data \cup {"id", "organizationId", "fullName", "hasPackageJson",
                                      "createdAt", "updatedAt"} |->
                 IF f \in DOMAIN data THEN data[f]
                 ELSE IF f = "id" THEN id
                 ELSE IF f = "organizationId" THEN org.id
                 ELSE IF f = "fullName" THEN repoDetails.full_name
                 ELSE IF f = "hasPackageJson" THEN FALSE
                 ELSE now]

FindPackageJson(pkgs, repositoryId) ==
    IF \E p \in pkgs : p.repositoryId = repositoryId
    THEN CHOOSE p \in pkgs : p.repositoryId = repositoryId ELSE NoRow

\* the data of the packageJson upsert, common to its update and create parts
PackageJsonData(packageJson, now) ==
    [name |-> Prop(packageJson, "name"),
     version |-> Prop(packageJson, "version"),
     description |-> Prop(packageJson, "description"),
     author |-> Prop(packageJson, "author"),
     license |-> Prop(packageJson, "license"),
     dependencies |-> OrEmptyObject(Prop(packageJson, "dependencies")),
     devDependencies |-> OrEmptyObject(Prop(packageJson, "devDependencies")),
     scripts |-> OrEmptyObject(Prop(packageJson, "scripts")),
     fetchedAt |-> now]

\* mutant: the upsert always inserts a row with a fresh id
UpsertPackageJsonInserts(pkgs, id, repositoryId, packageJson, now) ==
    LET data == PackageJsonData(packageJson, now) IN
    [f \in DOMAIN data \cup {"id", "repositoryId", "fullContent"} |->
        IF f = "id" THEN id
        ELSE IF f = "repositoryId" THEN repositoryId
        ELSE IF f = "fullContent" THEN packageJson
        ELSE IF f = "fetchedAt" THEN now
        ELSE IF data[f] = Undefined THEN Null ELSE data[f]]

\* tx.packageJson.upsert({where: {repositoryId}, update, create}): Prisma
\* leaves a column alone when the update gives undefined for it, and stores
\* null when the create gives undefined for it
UpsertPackageJson(pkgs, id, repositoryId, packageJson, now) ==
    LET old == FindPackageJson(pkgs, repositoryId)
        data == PackageJsonData(packageJson, now)
    IN  IF old # NoRow
        THEN [f \in DOMAIN old |->
                 IF f = "fullContent" THEN packageJson
                 ELSE IF f = "fetchedAt" THEN now
                 ELSE IF f \in DOMAIN data /\ data[f] # Undefined THEN data[f]
                 ELSE old[f]]
        ELSE [f \in DOMAIN data \cup {"id", "repositoryId", "fullContent"} |->
                 IF f = "id" THEN id
                 ELSE IF f = "repositoryId" THEN repositoryId
                 ELSE IF f = "fullContent" THEN packageJson
                 ELSE IF f = "fetchedAt" THEN now
                 ELSE IF data[f] = Undefined THEN Null ELSE data[f]]

\* mutant: the flag update is forgotten
MarkHasPackageJsonForgets(row, flag) == row

\* tx.repository.update({where: {id}, data: {hasPackageJson: flag}}) on the
\* row the transaction holds
MarkHasPackageJson(row, flag) == [row EXCEPT !.hasPackageJson = flag]

\* mutant: deleteMany removes nothing
DeleteManyPackageJsonKeeps(pkgs, repositoryId) == pkgs

\* mutant: deleteMany loses its where clause
DeleteManyPackageJsonAll(pkgs, repositoryId) == {}

\* tx.packageJson.deleteMany({where: {repositoryId}})
DeleteManyPackageJson(pkgs, repositoryId) ==
    {p \in pkgs : p.repositoryId # repositoryId}

\* ------------------------------------------------------------------------
\* syncOrganizationRepos
\* ------------------------------------------------------------------------
Min(a, b) == IF a < b THEN a ELSE b

IdleUnit == [st |-> "idle", repo |-> NoRow, pkgOp |-> "none", pkgRow |-> NoRow,
             status |-> 0, parsed |-> NoRow, body |-> "none", result |-> "none",
             error |-> "none"]

\* allRepos.slice(i, i + BATCH_SIZE), as the github ids of its entries
Batch(repos, from) ==
    {repos[k].id : k \in (from + 1)..Min(from + BATCH_SIZE, Len(repos))}

\* the pages of the listing: page k of the paginated request
ListingPage(k) ==
    SubSeq(OrgListing, (k - 1) * PER_PAGE + 1, Min(k * PER_PAGE, Len(OrgListing)))

SuccessSummary ==
    [success |-> TRUE, message |-> "Sync complete.", successCount |-> successCount,
     noPackageJsonCount |-> noPackageJsonCount, errorCount |-> errorCount]
FailureSummary(msg) ==
    [success |-> FALSE, message |-> <<"Failed to sync organization: ", msg>>]

Fault == faults < MaxFaults /\ faults' = faults + 1
NoFault == faults' = faults

\* the caller invokes syncOrganizationRepos(OrgName)
Call ==
    /\ pc = "idle" /\ clock < MaxRuns
    /\ UNCHANGED elsewhere
    /\ clock' = clock + 1
    /\ pc' = "orgUpsert"
    /\ successCount' = 0 /\ noPackageJsonCount' = 0 /\ errorCount' = 0
    /\ organization' = NoRow /\ allRepos' = <<>> /\ i' = 0
    /\ unit' = [g \in GithubIds |-> IdleUnit]
    /\ before' = [organizations |-> organizations, repositories |-> repositories,
                  packageJsons |-> packageJsons]
    /\ prevRet' = ret /\ ret' = NoReturn
    /\ log' = <<>>
    /\ UNCHANGED <<store, remote, names, remoteChanged, changes, faults>>

\* mutant: the outer catch reports the run as complete
CatchOuterReportsSuccess(msg) ==
    /\ ret' = [success |-> TRUE, message |-> "Sync complete.", successCount |-> successCount,
               noPackageJsonCount |-> noPackageJsonCount, errorCount |-> errorCount]
    /\ pc' = "finally"

\* the outer catch: the run ends with a failure summary
CatchOuter(msg) ==
    /\ ret' = FailureSummary(msg)
    /\ pc' = "finally"

\* step 1: prisma.organization.upsert, outside any transaction; a row the
\* table refuses (the organization is new and another organization is
\* stored without a github_id) makes the upsert reject, and the outer catch
\* ends the run
OrgUpsert ==
    /\ pc = "orgUpsert"
    /\ UNCHANGED elsewhere
    /\ LET row == UpsertOrganization(organizations, nextId.organization, OrgName, clock) IN
        /\ nextId' = IF row \in organizations THEN nextId
                     ELSE [nextId EXCEPT !.organization = @ + 1]
        /\ IF OrganizationConflict(organizations, row)
           THEN /\ CatchOuter("Unique constraint failed on the fields: (githubId)")
                /\ UNCHANGED <<organization, organizations>>
           ELSE /\ organization' = row
                /\ organizations' = organizations \cup {row}
                /\ pc' = "listing"
                /\ UNCHANGED ret
    /\ NoFault
    /\ UNCHANGED <<repositories, packageJsons, remote, names, clock, allRepos, i, unit,
                   counters, history, changes>>

OrgUpsertFails ==
    /\ pc = "orgUpsert"
    /\ UNCHANGED elsewhere
    /\ Fault
    /\ CatchOuter("organization upsert failed")
    /\ UNCHANGED <<store, remote, names, clock, locals, counters, history, changes>>

\* step 2: one page of octokit.paginate.iterator(listForOrg)
ListPage ==
    /\ pc = "listing"
    /\ UNCHANGED elsewhere
    /\ LET k == (Len(allRepos) \div PER_PAGE) + 1
           got == allRepos \o ListingPage(k)
       IN  /\ allRepos' = got
           /\ pc' = IF Len(got) = Len(OrgListing) THEN "loop" ELSE "listing"
    /\ NoFault
    /\ UNCHANGED <<store, remote, names, clock, organization, i, unit, counters, ret,
                   history, changes>>

ListPageFails ==
    /\ pc = "listing"
    /\ UNCHANGED elsewhere
    /\ Fault
    /\ CatchOuter("listing request failed")
    /\ UNCHANGED <<store, remote, names, clock, locals, counters, history, changes>>

\* entries of the log: a batch of `size` callbacks, a pause of `ms`
BatchEntry(size) == [event |-> "batch", n |-> size]
DelayEntry(ms) == [event |-> "delay", n |-> ms]

\* step 3: the loop test; entering a batch invokes every callback of it
LoopTest ==
    /\ pc = "loop"
    /\ UNCHANGED elsewhere
    /\ IF i < Len(allRepos)
       THEN /\ unit' = [g \in GithubIds |->
                          IF g \in Batch(allRepos, i)
                          THEN [IdleUnit EXCEPT !.st = "pending"] ELSE unit[g]]
            /\ log' = Append(log, BatchEntry(Cardinality(Batch(allRepos, i))))
            /\ pc' = "batch"
            /\ ret' = ret
       ELSE /\ ret' = SuccessSummary
            /\ pc' = "finally"
            /\ unit' = unit
            /\ log' = log
    /\ NoFault
    /\ UNCHANGED <<store, remote, names, clock, organization, allRepos, i, counters,
                   before, prevRet, remoteChanged, changes>>

\* ------------------------------------------------------------------------
\* The unit of work of one repository: the callback of batch.map
\* ------------------------------------------------------------------------
Descriptor(g) == CHOOSE d \in {allRepos[k] : k \in 1..Len(allRepos)} : d.id = g

\* mutant: the error of one repository is rethrown to the outer catch
CatchRepoErrorAborts(g, error) ==
    /\ unit' = [unit EXCEPT ![g] = [@ EXCEPT !.st = "settled", !.result = "caught",
                                              !.error = error]]
    /\ errorCount' = errorCount + 1
    /\ ret' = [success |-> FALSE, message |-> <<"Failed to sync organization: ", "rethrown">>]
    /\ pc' = "finally"
    /\ UNCHANGED <<successCount, noPackageJsonCount>>

\* the inner catch: the transaction is rolled back, the error is counted
CatchRepoError(g, error) ==
    /\ unit' = [unit EXCEPT ![g] = [@ EXCEPT !.st = "settled", !.result = "caught",
                                              !.error = error]]
    /\ errorCount' = errorCount + 1
    /\ UNCHANGED <<successCount, noPackageJsonCount, pc, ret>>

\* prisma.$transaction begins the transaction and invokes the callback
UnitBegin(g) ==
    /\ pc = "batch" /\ unit[g].st = "pending"
    /\ UNCHANGED elsewhere
    /\ unit' = [unit EXCEPT ![g] = [@ EXCEPT !.st = "begun"]]
    /\ NoFault
    /\ UNCHANGED <<store, remote, names, clock, pc, organization, allRepos, i, counters,
                   ret, history, changes>>

\* tx.repository.upsert; the fetch of the manifest is sent next
UnitUpsert(g) ==
    /\ pc = "batch" /\ unit[g].st = "begun"
    /\ UNCHANGED elsewhere
    /\ LET data == CommonRepoData(organization, Descriptor(g), clock)
           row == UpsertRepository(repositories, nextId.repository, data, clock)
       IN  /\ nextId' = IF FindRepository(repositories, g) = NoRow
                        THEN [nextId EXCEPT !.repository = @ + 1] ELSE nextId
           /\ IF RepositoryConflict(repositories, row)
              THEN CatchRepoError(g, "unique constraint failed")
              ELSE /\ unit' = [unit EXCEPT ![g] = [@ EXCEPT !.st = "open", !.repo = row]]
                   /\ UNCHANGED <<counters, pc, ret>>
    /\ NoFault
    /\ UNCHANGED <<organizations, repositories, packageJsons, remote, names, clock,
                   organization, allRepos, i, history, changes>>

\* the store fails the begin of the transaction or the repository upsert
UnitUpsertFails(g) ==
    /\ pc = "batch" /\ unit[g].st \in {"pending", "begun"}
    /\ UNCHANGED elsewhere
    /\ Fault
    /\ CatchRepoError(g, "store error")
    /\ UNCHANGED <<store, remote, names, clock, organization, allRepos, i, history, changes>>

\* what the remote answers to the content request of repository g
TrueResponse(g) == IF remote[g].exists THEN ContentOk(remote[g]) ELSE ContentErr(404)

\* the callback resumes with the answer resp of the fetch: the found branch
\* parses the text (the throw of JSON.parse reaches the inner catch) and
\* sends its first write, the 404 branch sends its first write, the branch
\* of the other statuses counts an error and returns
RunFetched(g, resp) ==
    LET fetched == getPackageJsonContent(resp) IN
    IF fetched.status = 200 /\ fetched.hasContent /\ Truthy(fetched.content)
    THEN LET parsed == JSONParse(fetched.content) IN
         IF ~parsed.ok
         THEN CatchRepoError(g, "SyntaxError")
         ELSE /\ unit' = [unit EXCEPT ![g] = [@ EXCEPT
                    !.st = "fetched", !.status = fetched.status, !.pkgOp = "put",
                    !.parsed = parsed.value]]
              /\ UNCHANGED <<counters, pc, ret>>
    ELSE IF fetched.status = 404
    THEN /\ unit' = [unit EXCEPT ![g] = [@ EXCEPT
               !.st = "fetched", !.status = fetched.status, !.pkgOp = "delete"]]
         /\ UNCHANGED <<counters, pc, ret>>
    ELSE /\ unit' = [unit EXCEPT ![g] = [@ EXCEPT
               !.st = "ran", !.status = fetched.status, !.body = "fetchError"]]
         /\ errorCount' = errorCount + 1
         /\ UNCHANGED <<successCount, noPackageJsonCount, pc, ret>>

\* the fetch is answered by the remote
UnitFetch(g) ==
    /\ pc = "batch" /\ unit[g].st = "open"
    /\ UNCHANGED elsewhere
    /\ RunFetched(g, TrueResponse(g))
    /\ NoFault
    /\ UNCHANGED <<store, remote, names, clock, organization, allRepos, i, history, changes>>

\* the fetch ends in a transient failure (rate limit exhausted, 5xx, network)
UnitFetchFails(g) ==
    /\ pc = "batch" /\ unit[g].st = "open"
    /\ UNCHANGED elsewhere
    /\ Fault
    /\ \E st \in TransientStatuses : RunFetched(g, ContentErr(st))
    /\ UNCHANGED <<store, remote, names, clock, organization, allRepos, i, history, changes>>

\* the first write of the branch: tx.packageJson.upsert, whose insert takes
\* an id, or tx.packageJson.deleteMany
UnitWrite(g) ==
    /\ pc = "batch" /\ unit[g].st = "fetched"
    /\ UNCHANGED elsewhere
    /\ IF unit[g].pkgOp = "put"
       THEN /\ unit' = [unit EXCEPT ![g] = [@ EXCEPT
                  !.st = "wrote",
                  !.pkgRow = UpsertPackageJson(packageJsons, nextId.packageJson,
                                               unit[g].repo.id, unit[g].parsed, clock)]]
            /\ nextId' = IF FindPackageJson(packageJsons, unit[g].repo.id) = NoRow
                         THEN [nextId EXCEPT !.packageJson = @ + 1] ELSE nextId
       ELSE /\ unit' = [unit EXCEPT ![g] = [@ EXCEPT !.st = "wrote"]]
            /\ nextId' = nextId
    /\ NoFault
    /\ UNCHANGED <<organizations, repositories, packageJsons, remote, names, clock, pc,
                   organization, allRepos, i, counters, ret, history, changes>>

\* the second write of the branch: tx.repository.update of hasPackageJson;
\* the callback then counts the repository and returns
UnitUpdate(g) ==
    /\ pc = "batch" /\ unit[g].st = "wrote"
    /\ UNCHANGED elsewhere
    /\ IF unit[g].pkgOp = "put"
       THEN /\ unit' = [unit EXCEPT ![g] = [@ EXCEPT
                  !.st = "ran", !.body = "stored",
                  !.repo = MarkHasPackageJson(@, TRUE)]]
            /\ successCount' = successCount + 1
            /\ UNCHANGED <<noPackageJsonCount, errorCount>>
       ELSE /\ unit' = [unit EXCEPT ![g] = [@ EXCEPT
                  !.st = "ran", !.body = "removed",
                  !.repo = MarkHasPackageJson(@, FALSE)]]
            /\ noPackageJsonCount' = noPackageJsonCount + 1
            /\ UNCHANGED <<successCount, errorCount>>
    /\ NoFault
    /\ UNCHANGED <<store, remote, names, clock, pc, organization, allRepos, i, ret,
                   history, changes>>

\* the store fails a write of the branch: the first one, or the repository
\* update, after an insert that has taken its id
UnitWriteFails(g) ==
    /\ pc = "batch" /\ unit[g].st \in {"fetched", "wrote"}
    /\ UNCHANGED elsewhere
    /\ Fault
    /\ CatchRepoError(g, "store error")
    /\ UNCHANGED <<store, remote, names, clock, organization, allRepos, i, history, changes>>

\* the rows of the store once the transaction of g is committed
CommitRepositories(g) ==
    {r \in repositories : r.id # unit[g].repo.id} \cup {unit[g].repo}
CommitPackageJsons(g) ==
    IF unit[g].pkgOp = "put"
    THEN DeleteManyPackageJson(packageJsons, unit[g].repo.id) \cup {unit[g].pkgRow}
    ELSE IF unit[g].pkgOp = "delete"
    THEN DeleteManyPackageJson(packageJsons, unit[g].repo.id)
    ELSE packageJsons

\* the transaction commits
UnitCommit(g) ==
    /\ pc = "batch" /\ unit[g].st = "ran"
    /\ UNCHANGED elsewhere
    /\ repositories' = CommitRepositories(g)
    /\ packageJsons' = CommitPackageJsons(g)
    /\ unit' = [unit EXCEPT ![g] = [@ EXCEPT !.st = "settled", !.result = "committed"]]
    /\ NoFault
    /\ UNCHANGED <<organizations, nextId, remote, names, clock, pc, organization, allRepos,
                   i, counters, ret, history, changes>>

\* the commit fails (timeout, lost connection): rollback, then the catch
UnitCommitFails(g) ==
    /\ pc = "batch" /\ unit[g].st = "ran"
    /\ UNCHANGED elsewhere
    /\ Fault
    /\ CatchRepoError(g, "transaction failed")
    /\ UNCHANGED <<store, remote, names, clock, organization, allRepos, i, history, changes>>

\* mutant: the loop resumes as soon as one promise of the batch has settled
SomeSettled(batch) == \E g \in batch : unit[g].st = "settled"

\* Promise.allSettled resolves once every promise of the batch has settled
AllSettled(batch) == \A g \in batch : unit[g].st = "settled"

\* mutant: the pause is taken after every batch, the last included
MoreBatchesAlways(from, repos) == TRUE

\* the test of the pause: the batch that ends is not the last one
MoreBatches(from, repos) == from + BATCH_SIZE < Len(repos)

\* `await Promise.allSettled(batchPromises)` resumes the loop
BatchSettled ==
    /\ pc = "batch"
    /\ UNCHANGED elsewhere
    /\ AllSettled(Batch(allRepos, i))
    /\ IF MoreBatches(i, allRepos)
       THEN pc' = "delay" /\ i' = i
       ELSE pc' = "loop" /\ i' = i + BATCH_SIZE
    /\ NoFault
    /\ UNCHANGED <<store, remote, names, clock, organization, allRepos, unit, counters,
                   ret, history, changes>>

\* the pause of DELAY_BETWEEN_BATCHES ends
Delay ==
    /\ pc = "delay"
    /\ UNCHANGED elsewhere
    /\ pc' = "loop" /\ i' = i + BATCH_SIZE
    /\ log' = Append(log, DelayEntry(DELAY_BETWEEN_BATCHES))
    /\ NoFault
    /\ UNCHANGED <<store, remote, names, clock, organization, allRepos, unit, counters,
                   ret, before, prevRet, remoteChanged, changes>>

\* finally: prisma.$disconnect() resolves and the caller gets the summary
Disconnect ==
    /\ pc = "finally"
    /\ UNCHANGED elsewhere
    /\ pc' = "idle"
    /\ remoteChanged' = FALSE
    /\ NoFault
    /\ UNCHANGED <<store, remote, names, clock, locals, counters, ret, before, prevRet, log, changes>>

\* finally: prisma.$disconnect() rejects and the rejection reaches the caller
DisconnectFails ==
    /\ pc = "finally"
    /\ UNCHANGED elsewhere
    /\ Fault
    /\ pc' = "idle"
    /\ ret' = Thrown("disconnect failed")
    /\ remoteChanged' = FALSE
    /\ UNCHANGED <<store, remote, names, clock, locals, counters, before, prevRet, log, changes>>

\* ------------------------------------------------------------------------
\* PackageAnalyzerService: the values of a manifest
\* ------------------------------------------------------------------------
\* JavaScript values, tagged with their type; an object is the sequence of
\* its Object.entries
JsUndefined == [type |-> "undefined"]
Str(s) == [type |-> "string", s |-> s]
Bool(b) == [type |-> "boolean", b |-> b]
Num(n) == [type |-> "number", n |-> n]
Obj(entries) == [type |-> "object", entries |-> entries]
Arr(items) == [type |-> "array", items |-> items]
\* a person written as text: the string and its spans, in order (free text,
\* a <...> span, a (...) span)
PersonText(s, spans) == [type |-> "string", s |-> s, spans |-> spans]

\* pkg[key]
Field(pkg, key) == IF key \in DOMAIN pkg THEN pkg[key] ELSE JsUndefined

JsTruthy(v) ==
    CASE v.type = "undefined" -> FALSE
      [] v.type = "string" -> v.s # ""
      [] v.type = "boolean" -> v.b
      [] v.type = "number" -> v.n # 0
      [] OTHER -> TRUE

\* typeof v === 'object', for a truthy v
TypeofObject(v) == v.type \in {"object", "array"}

\* the value a column takes from a truthy `v` in `v || d`: v itself, a
\* string, a boolean or a number as the store holds them, an object or an
\* array as it is
Column(v) ==
    CASE v.type = "string" -> v.s
      [] v.type = "boolean" -> v.b
      [] v.type = "number" -> v.n
      [] OTHER -> v

\* String(v): a string is itself, a boolean and a number are written out,
\* an array is its items joined by commas (Array.prototype.toString, where
\* an undefined item is the empty string), a plain object is
\* "[object Object]"
RECURSIVE String(_), JoinFrom(_, _)
String(v) ==
    CASE v.type = "string" -> v.s
      [] v.type = "boolean" -> IF v.b THEN "true" ELSE "false"
      [] v.type = "undefined" -> Undefined
      [] v.type = "number" -> ToString(v.n)
      [] v.type = "array" -> JoinFrom(v.items, 1)
      [] OTHER -> "[object Object]"
JoinFrom(items, k) ==
    IF k > Len(items) THEN ""
    ELSE (IF items[k].type = "undefined" THEN "" ELSE String(items[k]))
         \o (IF k < Len(items) THEN "," ELSE "")
         \o JoinFrom(items, k + 1)

\* String.prototype.trim, on the strings of the model
Trim(s) == IF s = " web " THEN "web" ELSE s

\* Object.entries: of an array, its items under their indices
IndexKeys == <<"0", "1", "2">>
ObjectEntries(v) ==
    IF v.type = "object" THEN v.entries
    ELSE [k \in 1..Len(v.items) |-> <<IndexKeys[k], v.items[k]>>]

\* the manifests analysed: two versions of the package "app", the second
\* dropping a dependency, the scripts, the people and several fields, and a
\* manifest without a name
PkgV1 ==
    [name |-> Str("app"), version |-> Str("1.0.0"), description |-> Str("first"),
     private |-> Bool(TRUE),
     homepage |-> Str("https://app.x.io"), license |-> Str("MIT"),
     main |-> Str("index.js"), typings |-> Str("index.d.ts"),
     browser |-> Obj(<< <<"fs", Bool(FALSE)>> >>),
     dependencies |-> Obj(<< <<"lodash", Str("^4.0.0")>>, <<"react", Str("^18.0.0")>> >>),
     devDependencies |-> Obj(<< <<"jest", Str("^29.0.0")>> >>),
     scripts |-> Obj(<< <<"build", Str("tsc")>> >>),
     keywords |-> Arr(<<Str(" web "), Str("")>>),
     author |-> PersonText("Jane <jane@x.io>",
                           <<[kind |-> "text", s |-> "Jane"],
                             [kind |-> "angle", s |-> "jane@x.io"]>>),
     maintainers |-> Arr(<<PersonText("<ops@x.io>", <<[kind |-> "angle", s |-> "ops@x.io"]>>)>>)]
PkgV2 ==
    [name |-> Str("app"), version |-> Str("2.0.0"),
     module |-> Str("index.mjs"), types |-> Str("types.d.ts"), typings |-> Str("index.d.ts"),
     browser |-> Str("browser.js"),
     dependencies |-> Obj(<< <<"lodash", Str("^4.0.0")>> >>),
     keywords |-> Arr(<<Str("cli")>>)]
PkgAnon ==
    [version |-> Str(""),
     private |-> Num(0),
     scripts |-> Obj(<< <<"test", Str("jest")>>, <<"lint", Arr(<<Str("eslint"), Str(".")>>)>> >>),
     dependencies |-> Str("none"),
     peerDependencies |-> Obj(<< <<"react", Bool(TRUE)>> >>),
     bundledDependencies |-> Arr(<<Str("tar")>>),
     contributors |-> Arr(<<PersonText("Bob", <<[kind |-> "text", s |-> "Bob"]>>)>>)]
Pkgs == {PkgV1, PkgV2, PkgAnon}

\* the git information given with a manifest
GitInfos ==
    {[owner |-> "acme", repo |-> "api", path |-> "package.json",
      url |-> "https://github.com/acme/api", stars |-> 5, size |-> 0, language |-> "TypeScript"],
     [owner |-> "acme", repo |-> "web", path |-> "package.json",
      provider |-> "gitlab", branch |-> "dev", sshUrl |-> "git@gitlab.com:acme/web.git",
      forks |-> 2, size |-> 10],
     [owner |-> "acme", repo |-> "api", path |-> "packages/ui/package.json"]}

\* JavaScript `x || d` on a property of gitInfo
Or(x, d) == IF x \in {Undefined, Null, ""} THEN d ELSE x

\* crypto.createHash('sha256').update(JSON.stringify(pkg)).digest('hex'):
\* equal for equal contents, different for the contents of the model
Sha256(pkg) == [sha256 |-> pkg]

\* ------------------------------------------------------------------------
\* PackageAnalyzerService: the prepared rows
\* ------------------------------------------------------------------------
generateUniqueName(packageName, gitInfo) ==
    IF ~JsTruthy(packageName) \/ packageName = Str("unknown")
    THEN IF Prop(gitInfo, "path") # "package.json"
         THEN <<Prop(gitInfo, "owner"), "/", Prop(gitInfo, "repo"), "/", Prop(gitInfo, "path")>>
         ELSE <<Prop(gitInfo, "owner"), "/", Prop(gitInfo, "repo")>>
    ELSE IF Or(Prop(gitInfo, "path"), "") # "" /\ Prop(gitInfo, "path") # "package.json"
    THEN <<packageName.s, "@", Prop(gitInfo, "owner"), "/", Prop(gitInfo, "repo"),
           "/", Prop(gitInfo, "path")>>
    ELSE <<packageName.s>>

\* JavaScript `v || d` on a property of the manifest
ColumnOr(v, d) == IF JsTruthy(v) THEN Column(v) ELSE d

\* JavaScript `gitInfo[f] || 0` on a numeric property of gitInfo
OrZero(gitInfo, f) == IF f \in DOMAIN gitInfo THEN gitInfo[f] ELSE 0

\* the helpers prepareProjectData calls on the manifest: each is a function
\* of its argument, and nothing more is known of its value
extractLicense(license) == [helper |-> "extractLicense", of |-> license]
extractLicenseUrl(license) == [helper |-> "extractLicenseUrl", of |-> license]
detectProjectType(pkg) == [helper |-> "detectProjectType", of |-> pkg]
detectPackageManager(pkg) == [helper |-> "detectPackageManager", of |-> pkg]
extractPackageManagerVersion(pkg) == [helper |-> "extractPackageManagerVersion", of |-> pkg]

\* the columns of a project
prepareProjectData(pkg, gitInfo, packageHash, now) ==
    [name |-> generateUniqueName(Field(pkg, "name"), gitInfo),
     version |-> ColumnOr(Field(pkg, "version"), "0.0.0"),
     description |-> ColumnOr(Field(pkg, "description"), Null),
     homepage |-> ColumnOr(Field(pkg, "homepage"), Null),
     gitProvider |-> Or(Prop(gitInfo, "provider"), "github"),
     gitOwner |-> Or(Prop(gitInfo, "owner"), Null),
     gitRepo |-> Or(Prop(gitInfo, "repo"), Null),
     gitBranch |-> Or(Prop(gitInfo, "branch"), "main"),
     gitUrl |-> Or(Prop(gitInfo, "url"), Null),
     gitSshUrl |-> Or(Prop(gitInfo, "sshUrl"), Null),
     license |-> extractLicense(Field(pkg, "license")),
     licenseUrl |-> extractLicenseUrl(Field(pkg, "license")),
     mainFile |-> ColumnOr(Field(pkg, "main"), Null),
     moduleFile |-> ColumnOr(Field(pkg, "module"), Null),
     typesFile |-> ColumnOr(Field(pkg, "types"), ColumnOr(Field(pkg, "typings"), Null)),
     browserFile |-> IF Field(pkg, "browser").type = "string"
                     THEN Field(pkg, "browser").s ELSE Null,
     isPrivate |-> ColumnOr(Field(pkg, "private"), FALSE),
     projectType |-> detectProjectType(pkg),
     packageManager |-> detectPackageManager(pkg),
     packageManagerVersion |-> extractPackageManagerVersion(pkg),
     packageJsonHash |-> packageHash,
     repoStars |-> OrZero(gitInfo, "stars"),
     repoForks |-> OrZero(gitInfo, "forks"),
     repoSize |-> OrZero(gitInfo, "size"),
     repoLanguage |-> Or(Prop(gitInfo, "language"), Null),
     lastAnalyzedAt |-> now]

\* the columns the update part of the project upsert of saveProject sets
SaveProjectUpdate ==
    {"version", "description", "homepage", "license", "mainFile", "moduleFile",
     "typesFile", "browserFile", "packageJsonHash", "repoStars", "repoForks",
     "repoSize", "repoLanguage", "lastAnalyzedAt"}

FindProject(projs, name) ==
    IF \E p \in projs : p.name = name
    THEN CHOOSE p \in projs : p.name = name ELSE NoRow

\* tx.project.upsert({where: {name}, update: {...}, create: projectData})
UpsertProject(projs, id, projectData) ==
    LET old == FindProject(projs, projectData.name) IN
    IF old # NoRow
    THEN [f \in DOMAIN old |-> IF f \in SaveProjectUpdate THEN projectData[f] ELSE old[f]]
    ELSE [f \in DOMAIN projectData \cup {"id"} |->
             IF f = "id" THEN id ELSE projectData[f]]

DepTypes ==
    <<[key |-> "dependencies", type |-> "PRODUCTION"],
      [key |-> "devDependencies", type |-> "DEVELOPMENT"],
      [key |-> "peerDependencies", type |-> "PEER"],
      [key |-> "optionalDependencies", type |-> "OPTIONAL"],
      [key |-> "bundledDependencies", type |-> "BUNDLED"],
      [key |-> "bundleDependencies", type |-> "BUNDLED"]>>

\* the rows of the dependency maps from the k-th on
RECURSIVE DependenciesFrom(_, _, _)
DependenciesFrom(projectId, pkg, k) ==
    IF k > Len(DepTypes) THEN <<>>
    ELSE LET v == Field(pkg, DepTypes[k].key)
             rows == IF JsTruthy(v) /\ TypeofObject(v)
                     THEN [j \in 1..Len(ObjectEntries(v)) |->
                             [projectId |-> projectId,
                              packageName |-> ObjectEntries(v)[j][1],
                              version |-> String(ObjectEntries(v)[j][2]),
                              dependencyType |-> DepTypes[k].type]]
                     ELSE <<>>
         IN  rows \o DependenciesFrom(projectId, pkg, k + 1)

prepareDependenciesData(projectId, pkg) == DependenciesFrom(projectId, pkg, 1)

prepareScriptsData(projectId, pkg) ==
    LET v == Field(pkg, "scripts") IN
    IF JsTruthy(v) /\ TypeofObject(v)
    THEN [j \in 1..Len(ObjectEntries(v)) |->
            [projectId |-> projectId,
             scriptName |-> ObjectEntries(v)[j][1],
             command |-> String(ObjectEntries(v)[j][2])]]
    ELSE <<>>

\* the rows of the keywords from the k-th on
RECURSIVE KeywordsFrom(_, _, _)
KeywordsFrom(projectId, items, k) ==
    IF k > Len(items) THEN <<>>
    ELSE (IF JsTruthy(items[k]) /\ items[k].type = "string"
          THEN <<[projectId |-> projectId, keyword |-> Trim(items[k].s)]>>
          ELSE <<>>) \o KeywordsFrom(projectId, items, k + 1)

prepareKeywordsData(projectId, pkg) ==
    LET v == Field(pkg, "keywords") IN
    IF JsTruthy(v) /\ v.type = "array" THEN KeywordsFrom(projectId, v.items, 1) ELSE <<>>

\* parsePersonString: the email is the first <...> span, the url the first
\* (...) span, the name the remaining text
FirstSpan(spans, kind) ==
    LET found == SelectSeq(spans, LAMBDA sp : sp.kind = kind) IN
    IF found = <<>> THEN Undefined ELSE found[1].s
parsePersonString(person) ==
    [name |-> Or(FirstSpan(person.spans, "text"), ""),
     email |-> FirstSpan(person.spans, "angle"),
     url |-> FirstSpan(person.spans, "paren")]

\* a row of createMany: an undefined value is stored as null
PersonRow(projectId, person, role) ==
    [projectId |-> projectId, name |-> person.name,
     email |-> Or(person.email, Null), url |-> Or(person.url, Null), role |-> role]

\* the rows of the persons of a list from the k-th on
RECURSIVE PeopleFrom(_, _, _, _)
PeopleFrom(projectId, items, role, k) ==
    IF k > Len(items) THEN <<>>
    ELSE (IF parsePersonString(items[k]).name # ""
          THEN <<PersonRow(projectId, parsePersonString(items[k]), role)>>
          ELSE <<>>) \o PeopleFrom(projectId, items, role, k + 1)

PeopleOfList(projectId, v, role) ==
    IF JsTruthy(v) /\ v.type = "array" THEN PeopleFrom(projectId, v.items, role, 1) ELSE <<>>

preparePeopleData(projectId, pkg) ==
    (IF JsTruthy(Field(pkg, "author"))
     THEN PeopleFrom(projectId, <<Field(pkg, "author")>>, "AUTHOR", 1) ELSE <<>>)
    \o PeopleOfList(projectId, Field(pkg, "contributors"), "CONTRIBUTOR")
    \o PeopleOfList(projectId, Field(pkg, "maintainers"), "MAINTAINER")

\* preparePeopleData reaches a call of parsePersonString: the manifest has
\* a truthy author, or a contributor or a maintainer in an array
CallsParsePersonString(pkg) ==
    \/ JsTruthy(Field(pkg, "author"))
    \/ \E key \in {"contributors", "maintainers"} :
          /\ Field(pkg, key).type = "array"
          /\ Len(Field(pkg, key).items) > 0

\* the four child tables, in the order analyzeAndSave starts their saves
ChildTables == <<"dependencies", "scripts", "keywords", "people">>
Tables == {ChildTables[k] : k \in 1..Len(ChildTables)}

\* the rows analyzeAndSave derives from a manifest for one child table
PrepareChildren(t, projectId, pkg) ==
    CASE t = "dependencies" -> prepareDependenciesData(projectId, pkg)
      [] t = "scripts" -> prepareScriptsData(projectId, pkg)
      [] t = "keywords" -> prepareKeywordsData(projectId, pkg)
      [] t = "people" -> preparePeopleData(projectId, pkg)

\* the rows of a project in a child table
RowsOfProject(rows, projectId) == SelectSeq(rows, LAMBDA r : r.projectId = projectId)

\* mutant: deleteMany removes nothing
DeleteManyChildrenKeeps(rows, projectId) == rows

\* tx.<child>.deleteMany({where: {projectId}})
DeleteManyChildren(rows, projectId) == SelectSeq(rows, LAMBDA r : r.projectId # projectId)

\* tx.<child>.createMany({data})
CreateManyChildren(rows, data) == rows \o data

\* ------------------------------------------------------------------------
\* PackageAnalyzerService.analyzeAndSave
\* ------------------------------------------------------------------------
Analyses == 1..MaxAnalyses

\* the three counts updateProjectStats reads
NoCounts == [totalDependencies |-> 0, totalScripts |-> 0, totalKeywords |-> 0]

IdleAnalysis ==
    [st |-> "idle", pkg |-> PkgAnon, gitInfo |-> [owner |-> "acme"], project |-> NoRow,
     projectData |-> NoRow, counts |-> NoCounts,
     stmt |-> 0, kids |-> [t \in Tables |-> <<>>], result |-> NoReturn,
     began |-> 0, committed |-> 0,
     before |-> [projects |-> {}, children |-> [t \in Tables |-> <<>>]]]

\* the transaction of call c is open and holds what it wrote
InTransaction(c) == analysis[c].st \in {"children", "stats", "update", "commit"}
\* the number of transactions committed so far
Commits == Cardinality({c \in Analyses : analysis[c].st = "done"})
\* the number of calls made so far: the value of new Date()
AnalyzerNow == Cardinality({c \in Analyses : analysis[c].st # "idle"})

notAnalyzer == <<sync, batchCall, request, other, lost, github, depsCall, endpoint, service>>

\* a caller invokes analyzeAndSave(pkg, gitInfo); the transaction begins
Analyze(c, pkg, gitInfo) ==
    /\ analysis[c].st = "idle"
    /\ \A d \in Analyses : d < c => analysis[d].st # "idle"
    /\ analysis' = [analysis EXCEPT ![c] = [@ EXCEPT
           !.st = "begun", !.pkg = pkg, !.gitInfo = gitInfo, !.began = Commits,
           !.before = [projects |-> projects, children |-> children]]]
    /\ NoFault
    /\ UNCHANGED <<projects, children, nextProjectId, notAnalyzer>>

\* the callback of the transaction calls saveProject: prepareProjectData
\* and the update object read new Date() here, and the upsert is sent
SaveProject(c) ==
    /\ analysis[c].st = "begun"
    /\ LET a == analysis[c] IN
       analysis' = [analysis EXCEPT ![c] = [@ EXCEPT
           !.st = "upsert",
           !.projectData = prepareProjectData(a.pkg, a.gitInfo, Sha256(a.pkg), AnalyzerNow)]]
    /\ NoFault
    /\ UNCHANGED <<projects, children, nextProjectId, notAnalyzer>>

\* await tx.project.upsert of saveProject takes effect: the project row,
\* which the transaction holds locked (the row, or its unique name) until
\* it ends
ProjectUpsert(c) ==
    /\ analysis[c].st = "upsert"
    /\ LET a == analysis[c]
           projectData == a.projectData
           project == UpsertProject(projects, nextProjectId, projectData)
       IN  /\ \A d \in Analyses \ {c} :
                 InTransaction(d) => analysis[d].project.name # projectData.name
           /\ analysis' = [analysis EXCEPT ![c] = [@ EXCEPT
                  !.st = "children", !.project = project, !.stmt = 0,
                  !.kids = [t \in Tables |-> RowsOfProject(children[t], project.id)]]]
           /\ nextProjectId' = IF FindProject(projects, projectData.name) = NoRow
                               THEN nextProjectId + 1 ELSE nextProjectId
    /\ NoFault
    /\ UNCHANGED <<projects, children, notAnalyzer>>

\* the k-th statement of the four saves: the four deleteMany in the order
\* of Promise.all, then the createMany of every non-empty prepared list
ChildStatement(rows, projectId, pkg, k) ==
    IF k <= Len(ChildTables)
    THEN DeleteManyChildren(rows, projectId)
    ELSE CreateManyChildren(rows, PrepareChildren(ChildTables[k - Len(ChildTables)], projectId, pkg))
StatementTable(k) ==
    IF k <= Len(ChildTables) THEN ChildTables[k] ELSE ChildTables[k - Len(ChildTables)]

\* mutant: the statement is run on the store outside the transaction
RunChildStatementUnbuffered(c, k) ==
    /\ children' = [children EXCEPT ![StatementTable(k)] =
           ChildStatement(@, analysis[c].project.id, analysis[c].pkg, k)]
    /\ analysis' = [analysis EXCEPT ![c] = [@ EXCEPT
           !.stmt = k, !.st = IF k = 2 * Len(ChildTables) THEN "stats" ELSE "children"]]

\* the statement is run in the transaction, on what it sees of its project
RunChildStatement(c, k) ==
    /\ analysis' = [analysis EXCEPT ![c] = [@ EXCEPT
           !.kids = [@ EXCEPT ![StatementTable(k)] =
               ChildStatement(@, analysis[c].project.id, analysis[c].pkg, k)],
           !.stmt = k, !.st = IF k = 2 * Len(ChildTables) THEN "stats" ELSE "children"]]
    /\ children' = children

\* saveDependencies, saveScripts, saveKeywords, savePeople: their next statement
SaveChildren(c) ==
    /\ analysis[c].st = "children"
    /\ RunChildStatement(c, analysis[c].stmt + 1)
    /\ NoFault
    /\ UNCHANGED <<projects, nextProjectId, notAnalyzer>>

\* the three counts of updateProjectStats, on the rows the transaction sees
\* of its project
CountChildren(kids) ==
    [totalDependencies |-> Len(kids["dependencies"]),
     totalScripts |-> Len(kids["scripts"]),
     totalKeywords |-> Len(kids["keywords"])]

\* tx.project.update({where: {id}, data: {totalDependencies, totalScripts,
\* totalKeywords}})
updateProjectStats(project, counts) ==
    [f \in DOMAIN project \cup DOMAIN counts |->
        IF f \in DOMAIN counts THEN counts[f] ELSE project[f]]

\* updateProjectStats: await Promise.all of the three counts
CountStats(c) ==
    /\ analysis[c].st = "stats"
    /\ analysis' = [analysis EXCEPT ![c] = [@ EXCEPT
           !.st = "update", !.counts = CountChildren(analysis[c].kids)]]
    /\ NoFault
    /\ UNCHANGED <<projects, children, nextProjectId, notAnalyzer>>

\* updateProjectStats: await tx.project.update with the counts read
UpdateStats(c) ==
    /\ analysis[c].st = "update"
    /\ analysis' = [analysis EXCEPT ![c] = [@ EXCEPT
           !.st = "commit", !.project = updateProjectStats(@, analysis[c].counts)]]
    /\ NoFault
    /\ UNCHANGED <<projects, children, nextProjectId, notAnalyzer>>

\* the transaction commits and analyzeAndSave returns its result
CommitAnalysis(c) ==
    /\ analysis[c].st = "commit"
    /\ LET a == analysis[c] IN
        /\ projects' = {p \in projects : p.id # a.project.id} \cup {a.project}
        /\ children' = [t \in Tables |->
               SelectSeq(children[t], LAMBDA r : r.projectId # a.project.id) \o a.kids[t]]
        /\ analysis' = [analysis EXCEPT ![c] = [@ EXCEPT
               !.st = "done", !.committed = Commits + 1,
               !.result = [success |-> TRUE, projectId |-> a.project.id]]]
    /\ NoFault
    /\ UNCHANGED <<nextProjectId, notAnalyzer>>

\* a step of the transaction fails (a store error, the 30 s timeout, a
\* failed commit): rollback, and analyzeAndSave rethrows the error
AnalysisFails(c) ==
    /\ analysis[c].st \in {"begun", "upsert", "children", "stats", "update", "commit"}
    /\ Fault
    /\ analysis' = [analysis EXCEPT ![c] = [@ EXCEPT
           !.st = "failed", !.result = Thrown("analysis failed")]]
    /\ UNCHANGED <<projects, children, nextProjectId, notAnalyzer>>

\* the class as src/ gives it has none of the helpers prepareProjectData
\* calls: saveProject throws a TypeError before its upsert, the transaction
\* rolls back with no statement run and analyzeAndSave rethrows
SaveProjectThrows(c) ==
    /\ analysis[c].st = "begun"
    /\ analysis' = [analysis EXCEPT ![c] = [@ EXCEPT
           !.st = "failed", !.result = Thrown("TypeError")]]
    /\ NoFault
    /\ UNCHANGED <<projects, children, nextProjectId, notAnalyzer>>

\* the class as src/ gives it has no parsePersonString: savePeople throws a
\* TypeError after its deleteMany when the manifest names a person, the
\* transaction rolls back and analyzeAndSave rethrows
SavePeopleThrows(c) ==
    /\ analysis[c].st = "children"
    /\ analysis[c].stmt >= Len(ChildTables)
    /\ CallsParsePersonString(analysis[c].pkg)
    /\ analysis' = [analysis EXCEPT ![c] = [@ EXCEPT
           !.st = "failed", !.result = Thrown("TypeError")]]
    /\ NoFault
    /\ UNCHANGED <<projects, children, nextProjectId, notAnalyzer>>

\* ------------------------------------------------------------------------
\* PackageAnalyzerService.prepareDependenciesData, called on its own
\* ------------------------------------------------------------------------
\* the keys of the dependency maps of a manifest
DepKeys ==
    {"dependencies", "devDependencies", "peerDependencies", "optionalDependencies",
     "bundledDependencies", "bundleDependencies"}
\* the values a manifest may give to such a key: a map (with a version that
\* is a string, one that is a boolean and one that is an array), an empty
\* map, an array of names, a string
DepValues ==
    {Obj(<< <<"lodash", Str("^4.0.0")>>, <<"react", Bool(TRUE)>>,
            <<"glob", Arr(<<Str("7"), Str("8")>>)>> >>),
     Obj(<<>>), Arr(<<Str("tar")>>), Str("none")}
\* the manifests: every choice of a value, or of none, for every key
DepManifests == UNION {[keys -> DepValues] : keys \in SUBSET DepKeys}

IdleDepsCall == [st |-> "idle", projectId |-> 0, pkg |-> PkgAnon, rows |-> <<>>]

notDeps == <<sync, faults, analyzer, batchCall, request, other, lost, github, endpoint, service>>

\* a caller invokes prepareDependenciesData(projectId, pkg)
PrepareDependencies(projectId, pkg) ==
    /\ depsCall.st = "idle"
    /\ depsCall' = [st |-> "returned", projectId |-> projectId, pkg |-> pkg,
                    rows |-> prepareDependenciesData(projectId, pkg)]
    /\ UNCHANGED notDeps

\* ------------------------------------------------------------------------
\* PackageAnalyzerService.batchAnalyze and processBatch
\* ------------------------------------------------------------------------
\* the git locations of the entries of a list
BatchGitInfos ==
    {[owner |-> "acme", repo |-> "api", path |-> "package.json",
      url |-> "https://github.com/acme/api", stars |-> 5, size |-> 0, language |-> "TypeScript"],
     [owner |-> "acme", repo |-> "api", path |-> "packages/ui/package.json"]}
\* the entries a list is made of: every manifest at the root of the
\* repository and the second version in the sub-package; the lists given
\* to batchAnalyze
BatchEntries ==
    {e \in {[packageJson |-> pkg, gitInfo |-> g] : pkg \in Pkgs, g \in BatchGitInfos} :
        e.gitInfo.path = "package.json" \/ e.packageJson = PkgV2}
PackageDataLists == UNION {[1..n -> BatchEntries] : n \in 1..MaxBatchList}

\* mutant: the slice runs to the end of the list
BatchSliceToEnd(list, from) == SubSeq(list, from + 1, Len(list))

\* packageDataList.slice(i, i + this.batchSize)
BatchSlice(list, from) == SubSeq(list, from + 1, Min(from + batchSize, Len(list)))

\* the columns the update part of the project upsert of processBatch sets
ProcessBatchUpdate == {"version", "description", "packageJsonHash", "lastAnalyzedAt"}

\* tx.project.upsert({where: {name}, update: {...}, create: projectData}) of
\* processBatch
UpsertProjectOfBatch(projs, id, projectData) ==
    LET old == FindProject(projs, projectData.name) IN
    IF old # NoRow
    THEN [f \in DOMAIN old |-> IF f \in ProcessBatchUpdate THEN projectData[f] ELSE old[f]]
    ELSE [f \in DOMAIN projectData \cup {"id"} |->
             IF f = "id" THEN id ELSE projectData[f]]

IdleBatch ==
    [st |-> "idle", list |-> <<>>, i |-> 0, cleared |-> 0,
     results |-> [success |-> 0, failed |-> 0, errors |-> <<>>],
     projectsData |-> <<>>, rows |-> <<>>, txProjects |-> {},
     kids |-> [t \in Tables |-> <<>>], all |-> [t \in Tables |-> <<>>],
     before |-> [projects |-> {}, children |-> [t \in Tables |-> <<>>]],
     last |-> "none", returned |-> FALSE]

\* the value of new Date() in a call of batchAnalyze
BatchNow == AnalyzerNow + 1
\* the entries of the batch being processed
CurrentBatch == BatchSlice(batchCall.list, batchCall.i)
\* no call of analyzeAndSave is running
NoAnalysisRunning == \A c \in Analyses : analysis[c].st \in {"idle", "done", "failed"}
\* no call of batchAnalyze is running
NoBatchRunning == batchCall.st \in {"idle", "returned"}

notBatch == <<sync, analysis, request, other, lost, github, depsCall, endpoint, service>>

\* a caller invokes batchAnalyze(packageDataList)
BatchAnalyze(list) ==
    /\ batchCall.st = "idle" /\ NoAnalysisRunning
    /\ batchCall' = [batchCall EXCEPT !.st = "loop", !.list = list, !.i = 0]
    /\ NoFault
    /\ UNCHANGED <<projects, children, nextProjectId, notBatch>>

\* the loop test of batchAnalyze; entering a batch calls processBatch, which
\* prepares the project data of every entry and opens its transaction
BatchLoop ==
    /\ batchCall.st = "loop"
    /\ IF batchCall.i < Len(batchCall.list)
       THEN batchCall' = [batchCall EXCEPT
                !.st = "upserts",
                !.projectsData =
                    [k \in 1..Len(CurrentBatch) |->
                        prepareProjectData(CurrentBatch[k].packageJson, CurrentBatch[k].gitInfo,
                                           Sha256(CurrentBatch[k].packageJson), BatchNow)],
                !.rows = <<>>, !.cleared = 0, !.txProjects = projects,
                !.kids = [t \in Tables |-> <<>>], !.all = [t \in Tables |-> <<>>],
                !.before = [projects |-> projects, children |-> children]]
       ELSE batchCall' = [batchCall EXCEPT !.st = "returned", !.returned = TRUE]
    /\ NoFault
    /\ UNCHANGED <<projects, children, nextProjectId, notBatch>>

\* one turn of the loop of the upserts: the upsert of the next projectData,
\* awaited; after the last one the transaction reads the children of the
\* projects it touched
BatchUpsert ==
    /\ batchCall.st = "upserts"
    /\ LET k == Len(batchCall.rows) + 1
           projectData == batchCall.projectsData[k]
           project == UpsertProjectOfBatch(batchCall.txProjects, nextProjectId, projectData)
           rows == Append(batchCall.rows, project)
           touched == {rows[j].id : j \in 1..Len(rows)}
       IN  /\ batchCall' = [batchCall EXCEPT
                  !.st = IF k = Len(batchCall.projectsData) THEN "deletes" ELSE "upserts",
                  !.rows = rows,
                  !.txProjects = {q \in @ : q.id # project.id} \cup {project},
                  !.kids = IF k = Len(batchCall.projectsData)
                           THEN [t \in Tables |->
                                    SelectSeq(children[t], LAMBDA r : r.projectId \in touched)]
                           ELSE @]
           /\ nextProjectId' = IF FindProject(batchCall.txProjects, projectData.name) = NoRow
                               THEN nextProjectId + 1 ELSE nextProjectId
    /\ NoFault
    /\ UNCHANGED <<projects, children, notBatch>>

\* one turn of the loop over the entries: await Promise.all of the four
\* deleteMany of the project of the next entry, then the rows prepared from
\* its manifest are pushed to the four lists
BatchDeletes ==
    /\ batchCall.st = "deletes"
    /\ LET k == batchCall.cleared + 1
           project == batchCall.rows[k]
       IN  batchCall' = [batchCall EXCEPT
               !.st = IF k = Len(batchCall.rows) THEN "creates" ELSE "deletes",
               !.cleared = k,
               !.kids = [t \in Tables |-> DeleteManyChildren(batchCall.kids[t], project.id)],
               !.all = [t \in Tables |->
                           batchCall.all[t]
                               \o PrepareChildren(t, project.id, CurrentBatch[k].packageJson)]]
    /\ NoFault
    /\ UNCHANGED <<projects, children, nextProjectId, notBatch>>

\* the createMany of every non-empty list
BatchCreates ==
    /\ batchCall.st = "creates"
    /\ batchCall' = [batchCall EXCEPT
           !.st = "commit",
           !.kids = [t \in Tables |->
                        IF Len(batchCall.all[t]) > 0
                        THEN CreateManyChildren(batchCall.kids[t], batchCall.all[t])
                        ELSE batchCall.kids[t]]]
    /\ NoFault
    /\ UNCHANGED <<projects, children, nextProjectId, notBatch>>

\* the transaction of processBatch commits: the batch is counted a success
BatchCommit ==
    /\ batchCall.st = "commit"
    /\ LET touched == {batchCall.rows[k].id : k \in 1..Len(batchCall.rows)} IN
        /\ projects' = {q \in projects : q.id \notin touched}
                          \cup {q \in batchCall.txProjects : q.id \in touched}
        /\ children' = [t \in Tables |->
               SelectSeq(children[t], LAMBDA r : r.projectId \notin touched) \o batchCall.kids[t]]
    /\ batchCall' = [batchCall EXCEPT
           !.st = "loop", !.i = @ + batchSize, !.last = "committed",
           !.results = [@ EXCEPT !.success = @ + Len(CurrentBatch)]]
    /\ NoFault
    /\ UNCHANGED <<nextProjectId, notBatch>>

\* the catch of batchAnalyze: the entries of the batch are counted as
\* failed, with one entry of errors, and the loop goes on
BatchCaught(error) ==
    [batchCall EXCEPT
        !.st = "loop", !.i = @ + batchSize, !.last = "failed",
        !.results = [@ EXCEPT
            !.failed = @ + Len(CurrentBatch),
            !.errors = Append(@, [batch |-> (batchCall.i \div batchSize) + 1,
                                  error |-> error])]]

\* a statement or the commit of the transaction of processBatch fails: the
\* rollback, and the catch of batchAnalyze counts the batch as failed
BatchFails ==
    /\ batchCall.st \in {"upserts", "deletes", "creates", "commit"}
    /\ Fault
    /\ batchCall' = BatchCaught("transaction failed")
    /\ UNCHANGED <<projects, children, nextProjectId, notBatch>>

\* the class as src/ gives it has none of the helpers prepareProjectData
\* calls: the preparation of processBatch throws a TypeError before the
\* transaction is opened
BatchPrepareThrows ==
    /\ batchCall.st = "loop" /\ batchCall.i < Len(batchCall.list)
    /\ batchCall' = [BatchCaught("TypeError") EXCEPT
           !.projectsData = <<>>, !.rows = <<>>,
           !.before = [projects |-> projects, children |-> children]]
    /\ NoFault
    /\ UNCHANGED <<projects, children, nextProjectId, notBatch>>

\* the class as src/ gives it has no parsePersonString: the turn of the
\* loop over the entries throws a TypeError, after its four deleteMany, at
\* an entry whose manifest names a person, and the transaction rolls back
BatchPeopleThrows ==
    /\ batchCall.st = "deletes"
    /\ CallsParsePersonString(CurrentBatch[batchCall.cleared + 1].packageJson)
    /\ batchCall' = BatchCaught("TypeError")
    /\ NoFault
    /\ UNCHANGED <<projects, children, nextProjectId, notBatch>>

\* a caller invokes analyzeAndSave between two calls of batchAnalyze
AnalyzeAlone(c, pkg, gitInfo) == NoBatchRunning /\ Analyze(c, pkg, gitInfo)

\* ------------------------------------------------------------------------
\* lib/github.js: the octokit client with its throttling and retry plugins
\* ------------------------------------------------------------------------

\* what the remote answers to one HTTP request: a status, and whether the
\* answer is a rate-limit response (quota exhausted)
Responses ==
    {[status |-> 200, rateLimit |-> FALSE], [status |-> 404, rateLimit |-> FALSE],
     [status |-> 500, rateLimit |-> FALSE], [status |-> 403, rateLimit |-> FALSE],
     [status |-> 403, rateLimit |-> TRUE], [status |-> 429, rateLimit |-> TRUE]}

\* throttle.onRateLimit: true asks the plugin for one more retry
onRateLimit(retryCount) == retryCount < 5

\* retry.doNotRetry
doNotRetry == {Str("429")}
\* the retries of the retry plugin, which the configuration leaves at the
\* default of the plugin
RetryPluginRetries == 3

\* the retry plugin retries an error whose status is at least 400 and is not
\* an element of doNotRetry (Array.prototype.includes: strict equality)
RetryPluginWants(status) == status >= 400 /\ Num(status) \notin doNotRetry

IdleRequest ==
    [st |-> "idle", sent |-> 0, last |-> [status |-> 0, rateLimit |-> FALSE],
     retryCount |-> 0, retried |-> 0, limited |-> 0, resent |-> 0,
     result |-> [content |-> EmptyText, hasContent |-> FALSE, status |-> 0]]

notThrottle == <<sync, faults, analyzer, batchCall, other, lost, github, depsCall, endpoint, service>>

\* getPackageJsonContent calls octokit.repos.getContent
GetContent ==
    /\ request.st = "idle"
    /\ request' = [request EXCEPT !.st = "ready"]
    /\ UNCHANGED notThrottle

\* the request is sent and the remote answers it
Answer(resp) ==
    /\ request.st = "ready"
    /\ request' = [request EXCEPT
           !.st = "answered", !.sent = @ + 1, !.last = resp,
           !.limited = IF resp.rateLimit THEN @ + 1 ELSE @,
           !.resent = IF request.last.rateLimit THEN @ + 1 ELSE @]
    /\ UNCHANGED notThrottle

\* the throttling plugin: a rate-limit response goes to onRateLimit with the
\* number of retries it has made, and is sent again when the handler
\* returns true; any other error, and a refused retry, is thrown on
Throttling ==
    /\ request.st = "answered"
    /\ request' =
           IF request.last.status = 200
           THEN [request EXCEPT !.st = "done",
                                !.result = getPackageJsonContent(ContentOk(FileOf(TextOf(DocA))))]
           ELSE IF request.last.rateLimit /\ onRateLimit(request.retryCount)
           THEN [request EXCEPT !.st = "ready", !.retryCount = @ + 1]
           ELSE [request EXCEPT !.st = "thrown"]
    /\ UNCHANGED notThrottle

\* the retry plugin: an error it wants to retry is sent again, up to its
\* number of retries; otherwise the error reaches the catch of
\* getPackageJsonContent
Retry ==
    /\ request.st = "thrown"
    /\ request' =
           IF RetryPluginWants(request.last.status) /\ request.retried < RetryPluginRetries
           THEN [request EXCEPT !.st = "ready", !.retried = @ + 1]
           ELSE [request EXCEPT !.st = "failed",
                                !.result = getPackageJsonContent(ContentErr(request.last.status))]
    /\ UNCHANGED notThrottle

\* ------------------------------------------------------------------------
\* A second invocation, syncOrganizationRepos of another organization,
\* running in the same process: it shares the module-level prisma client
\* ------------------------------------------------------------------------
\* the transaction of g is still known to the client
Live(g) == g \notin lost

\* the other invocation is called
OtherCall ==
    /\ other = "idle"
    /\ other' = "orgUpsert"
    /\ UNCHANGED <<sync, faults, analyzer, batchCall, request, lost, github, depsCall, endpoint, service>>

\* its step 1: prisma.organization.upsert of its organization, in the
\* tables and id sequences of the store; a row the table refuses makes the
\* upsert reject and sends the invocation through its outer catch to its
\* finally block; the organization lists no repository, so the invocation
\* writes nothing else and in both cases has its disconnect ahead
OtherOrgUpsert ==
    /\ other = "orgUpsert"
    /\ LET row == UpsertOrganization(organizations, nextId.organization, OtherOrgName, clock) IN
        /\ organizations' = IF OrganizationConflict(organizations, row)
                            THEN organizations ELSE organizations \cup {row}
        /\ nextId' = IF row \in organizations THEN nextId
                     ELSE [nextId EXCEPT !.organization = @ + 1]
    /\ other' = "running"
    /\ UNCHANGED <<repositories, packageJsons, remote, names, clock, pc, locals, counters,
                   ret, history, changes, faults, analyzer, batchCall, request, lost,
                   github, depsCall, endpoint, service>>

\* the other invocation reaches its finally block and disconnects the shared
\* client: the connections are closed, and the transactions open on them
\* are either lost or left to finish
OtherDisconnect(kills) ==
    /\ other = "running"
    /\ other' = "returned"
    /\ lost' = IF kills /\ pc = "batch"
               THEN lost \cup {g \in GithubIds :
                                  unit[g].st \in {"begun", "open", "fetched", "wrote", "ran"}}
               ELSE lost
    /\ UNCHANGED <<sync, faults, analyzer, batchCall, request, github, depsCall, endpoint, service>>

\* a unit of work whose transaction is lost: the next statement it sends
\* on tx (the repository upsert, a write of its branch, the commit) throws
\* and the inner catch counts an error; what the statements before it
\* took from the id sequences stays taken
LostUnitStatement(g) ==
    /\ pc = "batch" /\ unit[g].st \in {"begun", "fetched", "wrote", "ran"} /\ ~Live(g)
    /\ CatchRepoError(g, "transaction closed")
    /\ NoFault
    /\ UNCHANGED <<store, remote, names, clock, organization, allRepos, i, history, changes>>
    /\ UNCHANGED elsewhere

\* the caller invokes syncOrganizationRepos; behaviours in which a
\* transaction was lost are followed to the end of their run only
CallAgain == Call /\ lost = {}

\* ------------------------------------------------------------------------
\* app/api/fetch-package-json/route.ts: POST
\* ------------------------------------------------------------------------
\* the `organization` and `repoName` of a request body; "" when missing
BodyOrganizations == {OrgName, OtherOrgName, ""}
BodyRepoNames == {RepoNames[1], RepoNames[2], ""}
\* the values of Math.floor(Math.random() * 1000000), scaled down
RandomIds == {7, 8}

\* what octokit.repos.get yields for repository g of the organization
RepoDetailsOf(orgName, repoName, g) ==
    [id |-> g, name |-> repoName, full_name |-> <<orgName, repoName>>,
     html_url |-> <<"https://github.com", orgName, repoName>>,
     default_branch |-> "main", description |-> Null]
\* getRepositoryDetails: the data, or an error with its message
getRepositoryDetails(resp) ==
    IF resp.ok THEN [ok |-> TRUE, data |-> resp.data, message |-> ""]
    ELSE IF resp.status = 404
    THEN [ok |-> FALSE, data |-> NoRow, message |-> "Repository not found"]
    ELSE [ok |-> FALSE, data |-> NoRow, message |-> "Request failed"]
RepoResponses(orgName, repoName) ==
    {[ok |-> TRUE, status |-> 200, data |-> RepoDetailsOf(orgName, repoName, g)] :
        g \in GithubIds}
    \cup {[ok |-> FALSE, status |-> st, data |-> NoRow] : st \in {404, 500}}

\* what octokit.repos.getContent yields to the endpoint: a file, a
\* directory listing (no `content`), or a request error
EndpointContentResponses ==
    {[ok |-> TRUE, status |-> 200, isFile |-> TRUE, content |-> Base64(t)] : t \in Texts}
    \cup {[ok |-> TRUE, status |-> 200, isFile |-> FALSE, content |-> Base64(EmptyText)]}
    \cup {[ok |-> FALSE, status |-> st, isFile |-> FALSE, content |-> Base64(EmptyText)] :
             st \in {404, 500}}
\* the getPackageJsonContent of the route: the decoded text, null, or a throw
routeGetPackageJsonContent(resp) ==
    IF resp.ok /\ resp.isFile
    THEN [ok |-> TRUE, isNull |-> FALSE, content |-> Base64Decode(resp.content), message |-> ""]
    ELSE IF resp.ok
    THEN [ok |-> FALSE, isNull |-> FALSE, content |-> EmptyText,
          message |-> "Invalid package.json content"]
    ELSE IF resp.status = 404
    THEN [ok |-> TRUE, isNull |-> TRUE, content |-> EmptyText, message |-> ""]
    ELSE [ok |-> FALSE, isNull |-> FALSE, content |-> EmptyText, message |-> "Request failed"]

\* JSON.stringify: undefined for undefined, a JSON text otherwise
JSONStringify(x) == IF x = Undefined THEN Undefined ELSE [json |-> x]
\* typeof author === 'string' ? author : JSON.stringify(author); the authors
\* of the documents are strings or undefined
AuthorColumn(author) == IF author = Undefined THEN Undefined ELSE author

\* the data of the package_jsons upsert of the route
RoutePackageJsonData(packageJson, packageJsonContent, now) ==
    [name |-> Prop(packageJson, "name"),
     version |-> Prop(packageJson, "version"),
     description |-> Prop(packageJson, "description"),
     author |-> AuthorColumn(Prop(packageJson, "author")),
     license |-> Prop(packageJson, "license"),
     dependencies |-> JSONStringify(OrEmptyObject(Prop(packageJson, "dependencies"))),
     devDependencies |-> JSONStringify(OrEmptyObject(Prop(packageJson, "devDependencies"))),
     scripts |-> JSONStringify(OrEmptyObject(Prop(packageJson, "scripts"))),
     fullContent |-> packageJsonContent,
     fetchedAt |-> now]
\* the columns the route copies out of the manifest as they are: the only
\* ones whose value may be undefined
CopiedColumns == {"name", "version", "description", "author", "license"}
\* tx.package_jsons.upsert({where: {repository_id}, update, create})
RouteUpsertPackageJson(pkgs, id, repositoryId, packageJson, packageJsonContent, now) ==
    LET old == FindPackageJson(pkgs, repositoryId)
        data == RoutePackageJsonData(packageJson, packageJsonContent, now)
        IsUndefined(f) == f \in CopiedColumns /\ data[f] = Undefined
    IN  IF old # NoRow
        THEN [f \in DOMAIN old |->
                 IF f \in DOMAIN data /\ ~IsUndefined(f) THEN data[f] ELSE old[f]]
        ELSE [f \in DOMAIN data \cup {"id", "repositoryId"} |->
                 IF f = "id" THEN id
                 ELSE IF f = "repositoryId" THEN repositoryId
                 ELSE IF IsUndefined(f) THEN Null ELSE data[f]]

\* the primary key of the repositories table
RepositoryKeyTaken(repos, row) ==
    \E r \in repos : r.id = row.id /\ r.fullName # row.fullName

\* the three tables as a transaction or a caller sees them
StoreNow ==
    [organizations |-> organizations, repositories |-> repositories,
     packageJsons |-> packageJsons]
EmptyStore == [organizations |-> {}, repositories |-> {}, packageJsons |-> {}]

\* what the store holds once prisma.$transaction has rejected
RolledBack(committed, tx) == committed

\* NextResponse.json(body, {status})
Response(status, success, message) ==
    [status |-> status, success |-> success, message |-> message]
NoResponse == Response(0, FALSE, "")
\* the catch of POST
ErrorResponse(message) ==
    Response(IF message = "Repository not found" THEN 404 ELSE 500, FALSE,
             IF message = "Repository not found" THEN "Repository not found"
             ELSE "Failed to process package.json")

\* what await request.json() gives: the parsed body, null, or a rejection
BodyKinds == {"object", "null", "rejects"}

IdleEndpoint ==
    [st |-> "idle", n |-> 0, orgName |-> "", repoName |-> "", began |-> FALSE,
     before |-> EmptyStore, tx |-> EmptyStore, organization |-> NoRow,
     repoDetails |-> NoRow, repository |-> NoRow, content |-> EmptyText,
     step |-> "none", error |-> "", disconnect |-> "none", response |-> NoResponse]

notEndpoint ==
    <<remote, names, clock, pc, locals, counters, ret, history, changes, analyzer,
      batchCall, request, other, lost, github, depsCall, service>>

\* the transaction callback throws `message` at the step `step`
EndpointThrows(step, message) ==
    endpoint' = [endpoint EXCEPT !.st = "failed", !.step = step, !.error = message]

\* POST is called without a configured token
PostWithoutToken ==
    /\ endpoint.st \in {"idle", "responded", "rejected"}
    /\ endpoint.n < MaxRequests
    /\ endpoint' = [IdleEndpoint EXCEPT !.st = "responded", !.n = endpoint.n + 1,
                       !.before = StoreNow,
                       !.response = Response(500, FALSE, "GitHub token is not configured")]
    /\ NoFault
    /\ UNCHANGED <<store, notEndpoint>>

\* POST is called: await request.json(), whose rejection (a body that is
\* not JSON) or whose null (destructuring null throws) goes to the catch
\* with no transaction begun; validation, whose answer is returned from
\* inside the try; then the transaction begins
Post(json, orgName, repoName) ==
    /\ endpoint.st \in {"idle", "responded", "rejected"}
    /\ endpoint.n < MaxRequests
    /\ IF json # "object"
       THEN endpoint' = [IdleEndpoint EXCEPT !.st = "failed", !.n = endpoint.n + 1,
                            !.before = StoreNow, !.step = "body",
                            !.error = IF json = "null" THEN "TypeError"
                                      ELSE "SyntaxError"]
       ELSE IF orgName = "" \/ repoName = ""
       THEN endpoint' = [IdleEndpoint EXCEPT !.st = "finally", !.n = endpoint.n + 1,
                            !.orgName = orgName, !.repoName = repoName,
                            !.before = StoreNow,
                            !.response = Response(400, FALSE,
                                "Organization and repository name are required")]
       ELSE endpoint' = [IdleEndpoint EXCEPT !.st = "organization", !.n = endpoint.n + 1,
                            !.orgName = orgName, !.repoName = repoName,
                            !.began = TRUE, !.before = StoreNow, !.tx = StoreNow]
    /\ NoFault
    /\ UNCHANGED <<store, notEndpoint>>

\* tx.organizations.upsert({where: {name}, update: {}, create: {name, id: 0}})
EndpointOrganization ==
    /\ endpoint.st = "organization"
    /\ LET row == UpsertOrganization(endpoint.tx.organizations, 0, endpoint.orgName,
                                     endpoint.n)
       IN  IF OrganizationConflict(endpoint.tx.organizations, row)
           THEN EndpointThrows("organization", "Unique constraint failed")
           ELSE endpoint' = [endpoint EXCEPT !.st = "details", !.organization = row,
                                !.tx.organizations = @ \cup {row}]
    /\ NoFault
    /\ UNCHANGED <<store, notEndpoint>>

\* getRepositoryDetails(orgName, repoName)
EndpointDetails(resp) ==
    /\ endpoint.st = "details"
    /\ LET got == getRepositoryDetails(resp) IN
       IF got.ok
       THEN endpoint' = [endpoint EXCEPT !.st = "repository", !.repoDetails = got.data]
       ELSE EndpointThrows(IF resp.status = 404 THEN "missing" ELSE "details", got.message)
    /\ NoFault
    /\ UNCHANGED <<store, notEndpoint>>

\* tx.repositories.upsert({where: {full_name}, update, create}) with a
\* random id for a new row
EndpointRepository(id) ==
    /\ endpoint.st = "repository"
    /\ LET row == UpsertRepositoryByFullName(endpoint.tx.repositories, id,
                      endpoint.organization, endpoint.repoDetails, endpoint.n)
       IN  IF \/ RepositoryConflict(endpoint.tx.repositories, row)
              \/ RepositoryKeyTaken(endpoint.tx.repositories, row)
           THEN EndpointThrows("repository", "Unique constraint failed")
           ELSE endpoint' = [endpoint EXCEPT !.st = "content", !.repository = row,
                    !.tx.repositories =
                        {r \in @ : r.fullName # row.fullName} \cup {row}]
    /\ NoFault
    /\ UNCHANGED <<store, notEndpoint>>

\* getPackageJsonContent(orgName, repoName)
EndpointContent(resp) ==
    /\ endpoint.st = "content"
    /\ LET got == routeGetPackageJsonContent(resp) IN
       IF ~got.ok THEN EndpointThrows("content", got.message)
       ELSE IF got.isNull \/ ~Truthy(got.content)
       THEN endpoint' = [endpoint EXCEPT !.st = "remove"]
       ELSE endpoint' = [endpoint EXCEPT !.st = "parse", !.content = got.content]
    /\ NoFault
    /\ UNCHANGED <<store, notEndpoint>>

\* no content: await tx.package_jsons.deleteMany({where: {repository_id}})
EndpointRemove ==
    /\ endpoint.st = "remove"
    /\ endpoint' = [endpoint EXCEPT !.st = "unmark",
           !.tx.packageJsons = DeleteManyPackageJson(@, endpoint.repository.id)]
    /\ NoFault
    /\ UNCHANGED <<store, notEndpoint>>

\* no content: await tx.repositories.update has_package_json false, then
\* the callback returns its answer
EndpointUnmark ==
    /\ endpoint.st = "unmark"
    /\ LET row == MarkHasPackageJson(endpoint.repository, FALSE) IN
       endpoint' = [endpoint EXCEPT !.st = "done", !.repository = row,
           !.tx.repositories = {r \in @ : r.id # row.id} \cup {row},
           !.response = Response(200, TRUE,
                            "No package.json found for " \o endpoint.repoName)]
    /\ NoFault
    /\ UNCHANGED <<store, notEndpoint>>

\* JSON.parse, then await tx.repositories.update has_package_json true
EndpointMark ==
    /\ endpoint.st = "parse"
    /\ LET parsed == JSONParse(endpoint.content)
           row == MarkHasPackageJson(endpoint.repository, TRUE)
       IN  IF ~parsed.ok THEN EndpointThrows("parse", "Unexpected token")
           ELSE endpoint' = [endpoint EXCEPT !.st = "upsert", !.repository = row,
                    !.tx.repositories = {r \in @ : r.id # row.id} \cup {row}]
    /\ NoFault
    /\ UNCHANGED <<store, notEndpoint>>

\* await tx.package_jsons.upsert, then the callback returns its answer; a
\* row the upsert inserts takes the next id of the table, commit or not
EndpointWrite ==
    /\ endpoint.st = "upsert"
    /\ LET parsed == JSONParse(endpoint.content)
           pkg == RouteUpsertPackageJson(endpoint.tx.packageJsons, nextId.packageJson,
                      endpoint.repository.id, parsed.value, endpoint.content, endpoint.n)
       IN  endpoint' = [endpoint EXCEPT !.st = "done",
               !.tx.packageJsons =
                   {p \in @ : p.repositoryId # pkg.repositoryId} \cup {pkg},
               !.response = Response(200, TRUE,
                   "Successfully processed package.json for " \o endpoint.repoName)]
    /\ nextId' = IF FindPackageJson(endpoint.tx.packageJsons, endpoint.repository.id) = NoRow
                 THEN [nextId EXCEPT !.packageJson = @ + 1] ELSE nextId
    /\ NoFault
    /\ UNCHANGED <<organizations, repositories, packageJsons, notEndpoint>>

\* the store fails a statement of the transaction, or its commit
EndpointStoreFails ==
    /\ endpoint.st \in {"organization", "repository", "remove", "unmark", "parse",
                        "upsert", "done"}
    /\ Fault
    /\ EndpointThrows("store", "Can't reach database server")
    /\ UNCHANGED <<store, notEndpoint>>

\* the transaction commits and POST builds the answer from its result
EndpointCommit ==
    /\ endpoint.st = "done"
    /\ organizations' = endpoint.tx.organizations
    /\ repositories' = endpoint.tx.repositories
    /\ packageJsons' = endpoint.tx.packageJsons
    /\ nextId' = nextId
    /\ endpoint' = [endpoint EXCEPT !.st = "finally"]
    /\ NoFault
    /\ UNCHANGED notEndpoint

\* the transaction rolls back and the catch of POST answers
EndpointCatch ==
    /\ endpoint.st = "failed"
    /\ LET kept == RolledBack(StoreNow, endpoint.tx) IN
       /\ organizations' = kept.organizations
       /\ repositories' = kept.repositories
       /\ packageJsons' = kept.packageJsons
    /\ nextId' = nextId
    /\ endpoint' = [endpoint EXCEPT !.st = "finally",
                       !.response = ErrorResponse(endpoint.error)]
    /\ NoFault
    /\ UNCHANGED notEndpoint

\* finally: prisma.$disconnect() resolves and POST gives its answer
EndpointDisconnect ==
    /\ endpoint.st = "finally"
    /\ endpoint' = [endpoint EXCEPT !.st = "responded", !.disconnect = "done"]
    /\ NoFault
    /\ UNCHANGED <<store, notEndpoint>>

\* finally: prisma.$disconnect() rejects; POST rejects with that error and
\* the answer it had built is lost
EndpointDisconnectFails ==
    /\ endpoint.st = "finally"
    /\ Fault
    /\ endpoint' = [endpoint EXCEPT !.st = "rejected", !.disconnect = "failed",
                       !.response = NoResponse]
    /\ UNCHANGED <<store, notEndpoint>>

\* ------------------------------------------------------------------------
\* GitHubService.findAllPackageJsons and processOrgPackageJsons
\* ------------------------------------------------------------------------
\* what octokit.repos.getContent yields for a directory: its items, a 404,
\* or another request error
NoListing == [resp |-> "none", items |-> <<>>]
DirOk(items) == [resp |-> "ok", items |-> items]
DirMissing == [resp |-> "404", items |-> <<>>]
DirError == [resp |-> "error", items |-> <<>>]
FileItem(name, path) == [type |-> "file", name |-> name, path |-> path, tree |-> NoListing]
DirItem(name, path, tree) == [type |-> "dir", name |-> name, path |-> path, tree |-> tree]

\* the repositories the service walks
TreeNoManifest == DirOk(<<FileItem("README.md", "README.md")>>)
TreeRootManifest == DirOk(<<FileItem("package.json", "package.json")>>)
TreeMonorepo ==
    DirOk(<<DirItem("node_modules", "node_modules",
                DirOk(<<FileItem("package.json", "node_modules/package.json")>>)),
            FileItem("package.json", "package.json"),
            DirItem("packages", "packages",
                DirOk(<<DirItem("ui", "packages/ui",
                    DirOk(<<FileItem("package.json", "packages/ui/package.json")>>))>>)),
            DirItem(".cache", ".cache",
                DirOk(<<FileItem("package.json", ".cache/package.json")>>))>>)
TreeRootFails == DirError
TreeEmptyRepository == DirMissing
TreeSubdirFails ==
    DirOk(<<FileItem("package.json", "package.json"),
            DirItem("packages", "packages", DirError)>>)
RepoTrees ==
    {TreeNoManifest, TreeRootManifest, TreeMonorepo, TreeRootFails, TreeEmptyRepository,
     TreeSubdirFails}

skipDirs ==
    {"node_modules", ".git", ".github", "dist", "build", "coverage", "docs", ".vscode",
     ".idea", "test", "tests", "__tests__"}
\* dirName.startsWith('.'), on the directory names of the trees
StartsWithDot(dirName) == dirName \in {".git", ".github", ".vscode", ".idea", ".cache"}
shouldSkipDirectory(dirName) == dirName \in skipDirs \/ StartsWithDot(dirName)

\* findAllPackageJsons: the paths of the manifests under a directory; a
\* failed request, 404 or not, leaves the list as it is
RECURSIVE FindFrom(_, _)
FindFrom(items, k) ==
    IF k > Len(items) THEN <<>>
    ELSE LET item == items[k]
             here == IF item.type = "file" /\ item.name = "package.json"
                     THEN <<item.path>>
                     ELSE IF item.type = "dir" /\ ~shouldSkipDirectory(item.name)
                     THEN IF item.tree.resp = "ok" THEN FindFrom(item.tree.items, 1)
                          ELSE <<>>
                     ELSE <<>>
         IN  here \o FindFrom(items, k + 1)
findAllPackageJsons(tree) == IF tree.resp = "ok" THEN FindFrom(tree.items, 1) ELSE <<>>

\* the lists of repositories getOrgRepos returns
ServiceRepoLists == UNION {[1..n -> RepoTrees] : n \in 0..MaxServiceRepos}

NewStats ==
    [totalRepos |-> 0, processedRepos |-> 0, successRepos |-> 0, errorRepos |-> 0,
     totalPackageJsons |-> 0, errors |-> <<>>]
QueuedTask == [st |-> "queued", paths |-> <<>>, j |-> 0, caught |-> ""]
IdleService ==
    [st |-> "idle", repos |-> <<>>, task |-> <<>>, stats |-> NewStats,
     progress |-> NewStats, callbacks |-> 0]

notService ==
    <<sync, analyzer, batchCall, request, other, lost, github, depsCall, endpoint>>

\* the tasks p-limit has started and not finished
RunningTasks ==
    {k \in DOMAIN service.task : service.task[k].st \notin {"queued", "done", "rejected"}}
ServiceActive == service.st \in {"running", "thrown"}

\* progressCallback?.(stats)
Progress(stats) == [progress |-> stats, callbacks |-> service.callbacks + 1]

\* processOrgPackageJsons(org, processor, progressCallback) is called and
\* getOrgRepos returns `repos`
ProcessOrgPackageJsons(repos) ==
    /\ service.st \in {"idle", "returned"}
    /\ service' = [IdleService EXCEPT !.st = "running", !.repos = repos,
                      !.task = [k \in DOMAIN repos |-> QueuedTask],
                      !.stats.totalRepos = Len(repos)]
    /\ NoFault
    /\ UNCHANGED notService

\* getOrgRepos throws: the catch logs and rethrows
ServiceListFails ==
    /\ service.st \in {"idle", "returned"}
    /\ Fault
    /\ service' = [IdleService EXCEPT !.st = "thrown"]
    /\ UNCHANGED notService

\* p-limit starts the next queued task when fewer than the limit run
TaskStart(k) ==
    /\ ServiceActive
    /\ k \in DOMAIN service.task /\ service.task[k].st = "queued"
    /\ \A h \in DOMAIN service.task : h < k => service.task[h].st # "queued"
    /\ Cardinality(RunningTasks) < concurrencyLimit
    /\ service' = [service EXCEPT !.task[k].st = "walking"]
    /\ NoFault
    /\ UNCHANGED notService

\* findAllPackageJsons returned; without a path the repository is counted
\* and the callback is told
TaskWalked(k, callbackThrows) ==
    /\ ServiceActive
    /\ k \in DOMAIN service.task /\ service.task[k].st = "walking"
    /\ LET packageJsonPaths == findAllPackageJsons(service.repos[k]) IN
       IF Len(packageJsonPaths) = 0
       THEN LET stats == [service.stats EXCEPT !.processedRepos = @ + 1]
                told == Progress(stats)
            IN  /\ IF callbackThrows THEN Fault ELSE NoFault
                /\ service' = [service EXCEPT !.stats = stats,
                      !.progress = told.progress, !.callbacks = told.callbacks,
                      !.task[k].st = IF callbackThrows THEN "catch" ELSE "finally",
                      !.task[k].caught = IF callbackThrows THEN "callback failed" ELSE ""]
       ELSE /\ ~callbackThrows
            /\ NoFault
            /\ service' = [service EXCEPT
                  !.stats.totalPackageJsons = @ + Len(packageJsonPaths),
                  !.task[k].st = "paths", !.task[k].paths = packageJsonPaths,
                  !.task[k].j = 1]
    /\ UNCHANGED notService

\* the catch inside the loop over the paths: the error is pushed to
\* stats.errors and the loop goes on with the next path
PathCaught(k, error) ==
    [service EXCEPT !.task[k].st = "paths", !.task[k].j = @ + 1,
        !.stats.errors = Append(@, [repo |-> RepoNames[k],
                                    path |-> service.task[k].paths[service.task[k].j],
                                    error |-> error])]

\* one turn of the loop over the paths, up to its first await:
\* await getPackageJson resolves, and the processor is called, or throws
TaskPath(k, outcome) ==
    /\ ServiceActive
    /\ k \in DOMAIN service.task /\ service.task[k].st = "paths"
    /\ service.task[k].j <= Len(service.task[k].paths)
    /\ service' = IF outcome = "ok"
                  THEN [service EXCEPT !.task[k].st = "processor"]
                  ELSE PathCaught(k, outcome)
    /\ NoFault
    /\ UNCHANGED notService

\* the rest of the turn: await processor(packageJson, gitInfo) resolves or
\* throws
TaskProcessor(k, outcome) ==
    /\ ServiceActive
    /\ k \in DOMAIN service.task /\ service.task[k].st = "processor"
    /\ service' = IF outcome = "ok"
                  THEN [service EXCEPT !.task[k].st = "paths", !.task[k].j = @ + 1]
                  ELSE PathCaught(k, outcome)
    /\ NoFault
    /\ UNCHANGED notService

\* the loop is over: the repository is a success
TaskSucceeds(k) ==
    /\ ServiceActive
    /\ k \in DOMAIN service.task /\ service.task[k].st = "paths"
    /\ service.task[k].j > Len(service.task[k].paths)
    /\ service' = [service EXCEPT !.stats.successRepos = @ + 1, !.task[k].st = "finally"]
    /\ NoFault
    /\ UNCHANGED notService

\* the catch of a task
TaskCatch(k) ==
    /\ ServiceActive
    /\ k \in DOMAIN service.task /\ service.task[k].st = "catch"
    /\ service' = [service EXCEPT !.stats.errorRepos = @ + 1,
          !.stats.errors = Append(@, [repo |-> RepoNames[k],
                                      error |-> service.task[k].caught]),
          !.task[k].st = "finally"]
    /\ NoFault
    /\ UNCHANGED notService

\* the finally of a task; a callback that throws rejects the task, and with
\* it Promise.all and the call
TaskFinally(k, callbackThrows) ==
    /\ ServiceActive
    /\ k \in DOMAIN service.task /\ service.task[k].st = "finally"
    /\ LET stats == [service.stats EXCEPT !.processedRepos = @ + 1]
           told == Progress(stats)
       IN  /\ IF callbackThrows THEN Fault ELSE NoFault
           /\ service' = [service EXCEPT !.stats = stats,
                 !.progress = told.progress, !.callbacks = told.callbacks,
                 !.task[k].st = IF callbackThrows THEN "rejected" ELSE "done",
                 !.st = IF callbackThrows THEN "thrown" ELSE @]
    /\ UNCHANGED notService

\* Promise.all resolves: return stats
ServiceReturns ==
    /\ service.st = "running"
    /\ \A k \in DOMAIN service.task : service.task[k].st = "done"
    /\ service' = [service EXCEPT !.st = "returned"]
    /\ NoFault
    /\ UNCHANGED notService

\* ------------------------------------------------------------------------
\* GitHubService.getOrgRepos
\* ------------------------------------------------------------------------
\* the states a listed repository may be in: its archived and disabled flags
RepoFlags == [archived : BOOLEAN, disabled : BOOLEAN]

\* the k-th entry of a listing, with the flags fl
ListedRepo(k, fl) ==
    [id |-> k, archived |-> fl.archived, disabled |-> fl.disabled]

\* the listings of an organization: up to MaxListing repositories
Listings ==
    UNION {{[k \in 1..n |-> ListedRepo(k, f[k])] : f \in [1..n -> RepoFlags]} :
              n \in 0..MaxListing}

\* octokit.repos.listForOrg({per_page, page}): the page of the listing
listForOrg(listing, perPage, page) ==
    SubSeq(listing, (page - 1) * perPage + 1, Min(page * perPage, Len(listing)))

\* mutant: the filter keeps the disabled repositories
ActiveIgnoresDisabled(repo) == ~repo.archived

\* the filter of the result: !repo.archived && !repo.disabled
Active(repo) == ~repo.archived /\ ~repo.disabled

IdleLister ==
    [st |-> "idle", listing |-> <<>>, page |-> 0, repos |-> <<>>, requested |-> <<>>,
     sizes |-> <<>>, result |-> NoReturn]

notGithub == <<sync, analyzer, batchCall, request, other, lost, depsCall, endpoint, service>>

\* a caller invokes getOrgRepos(org) on an organization with this listing
GetOrgRepos(listing) ==
    /\ lister.st = "idle"
    /\ lister' = [lister EXCEPT !.st = "paging", !.listing = listing, !.page = 1]
    /\ NoFault
    /\ UNCHANGED notGithub

\* one turn of the while loop: the request of the page, the push of its
\* entries, and the test of its length; the return filters the repositories
ListForOrg ==
    /\ lister.st = "paging"
    /\ LET response == listForOrg(lister.listing, PER_PAGE, lister.page)
           repos == lister.repos \o response
       IN  lister' = [lister EXCEPT
               !.requested = Append(@, lister.page),
               !.sizes = Append(@, Len(response)),
               !.repos = repos,
               !.page = IF Len(response) < PER_PAGE THEN @ ELSE @ + 1,
               !.st = IF Len(response) < PER_PAGE THEN "returned" ELSE "paging",
               !.result = IF Len(response) < PER_PAGE
                          THEN [returned |-> TRUE, value |-> SelectSeq(repos, Active)]
                          ELSE @]
    /\ NoFault
    /\ UNCHANGED notGithub

\* the request of a page fails: the catch logs the error and rethrows it
ListForOrgFails ==
    /\ lister.st = "paging"
    /\ Fault
    /\ lister' = [lister EXCEPT !.st = "thrown", !.result = Thrown("listForOrg failed")]
    /\ UNCHANGED notGithub

\* ------------------------------------------------------------------------
\* The environment
\* ------------------------------------------------------------------------
\* between two syncs, the package.json of one repository changes
RemoteChange(g, file) ==
    /\ pc = "idle" /\ clock < MaxRuns
    /\ UNCHANGED elsewhere
    /\ changes < MaxRemoteChanges
    /\ file # remote[g]
    /\ remote' = [remote EXCEPT ![g] = file]
    /\ changes' = changes + 1
    /\ remoteChanged' = TRUE
    /\ UNCHANGED <<store, names, clock, pc, locals, counters, ret, before, prevRet, log, faults>>

\* between two syncs, a stored repository is renamed on the remote to a name
\* no repository has at that moment
RemoteRename(g, n) ==
    /\ pc = "idle" /\ clock < MaxRuns
    /\ UNCHANGED elsewhere
    /\ changes < MaxRemoteChanges
    /\ FindRepository(repositories, g) # NoRow
    /\ names[g] # Unlisted
    /\ \A h \in GithubIds : names[h] # n
    /\ names' = [names EXCEPT ![g] = n]
    /\ changes' = changes + 1
    /\ remoteChanged' = TRUE
    /\ UNCHANGED <<store, remote, clock, pc, locals, counters, ret, before, prevRet, log, faults>>

\* between two syncs, a stored repository leaves the organization (deleted,
\* or transferred): the listing holds it no more
RemoteRemove(g) ==
    /\ pc = "idle" /\ clock < MaxRuns
    /\ UNCHANGED elsewhere
    /\ changes < MaxRemoteChanges
    /\ FindRepository(repositories, g) # NoRow
    /\ names[g] # Unlisted
    /\ names' = [names EXCEPT ![g] = Unlisted]
    /\ changes' = changes + 1
    /\ remoteChanged' = TRUE
    /\ UNCHANGED <<store, remote, clock, pc, locals, counters, ret, before, prevRet, log, faults>>

Init ==
    /\ organizations = {} /\ repositories = {} /\ packageJsons = {}
    /\ nextId = [organization |-> 1, repository |-> 1, packageJson |-> 1]
    /\ remote = [g \in GithubIds |-> NoFile]
    /\ names = [g \in GithubIds |-> g]
    /\ clock = 0
    /\ pc = "idle"
    /\ organization = NoRow /\ allRepos = <<>> /\ i = 0
    /\ unit = [g \in GithubIds |-> IdleUnit]
    /\ successCount = 0 /\ noPackageJsonCount = 0 /\ errorCount = 0
    /\ ret = NoReturn /\ prevRet = NoReturn
    /\ before = [organizations |-> {}, repositories |-> {}, packageJsons |-> {}]
    /\ remoteChanged = FALSE
    /\ log = <<>>
    /\ changes = 0 /\ faults = 0
    /\ projects = {} /\ children = [t \in Tables |-> <<>>]
    /\ nextProjectId = 1
    /\ analysis = [c \in Analyses |-> IdleAnalysis]
    /\ request = IdleRequest
    /\ other = "idle" /\ lost = {}
    /\ lister = IdleLister
    /\ batchCall = IdleBatch
    /\ depsCall = IdleDepsCall
    /\ endpoint = IdleEndpoint
    /\ service = IdleService

Next ==
    \/ Call
    \/ OrgUpsert
    \/ OrgUpsertFails
    \/ ListPage
    \/ ListPageFails
    \/ LoopTest
    \/ \E g \in GithubIds : UnitBegin(g)
    \/ \E g \in GithubIds : UnitUpsert(g)
    \/ \E g \in GithubIds : UnitUpsertFails(g)
    \/ \E g \in GithubIds : UnitFetch(g)
    \/ \E g \in GithubIds : UnitFetchFails(g)
    \/ \E g \in GithubIds : UnitWrite(g)
    \/ \E g \in GithubIds : UnitUpdate(g)
    \/ \E g \in GithubIds : UnitWriteFails(g)
    \/ \E g \in GithubIds : UnitCommit(g)
    \/ \E g \in GithubIds : UnitCommitFails(g)
    \/ BatchSettled
    \/ Delay
    \/ Disconnect
    \/ DisconnectFails
    \/ \E g \in GithubIds, file \in RemoteFiles : RemoteChange(g, file)
    \/ \E g \in GithubIds, n \in NameIds : RemoteRename(g, n)

Spec == Init /\ [][Next]_vars

NextAnalyzer ==
    \/ \E c \in Analyses, pkg \in Pkgs, gitInfo \in GitInfos : Analyze(c, pkg, gitInfo)
    \/ \E c \in Analyses : SaveProject(c)
    \/ \E c \in Analyses : ProjectUpsert(c)
    \/ \E c \in Analyses : SaveChildren(c)
    \/ \E c \in Analyses : CountStats(c)
    \/ \E c \in Analyses : UpdateStats(c)
    \/ \E c \in Analyses : CommitAnalysis(c)
    \/ \E c \in Analyses : AnalysisFails(c)
    \/ \E c \in Analyses : SaveProjectThrows(c)
    \/ \E c \in Analyses : SavePeopleThrows(c)

SpecAnalyzer == Init /\ [][NextAnalyzer]_vars

NextThrottle ==
    \/ GetContent
    \/ \E resp \in Responses : Answer(resp)
    \/ Throttling
    \/ Retry

SpecThrottle == Init /\ [][NextThrottle]_vars

\* two invocations in one process, the store and the remote never failing
NextConcurrent ==
    \/ CallAgain
    \/ OrgUpsert
    \/ ListPage
    \/ LoopTest
    \/ \E g \in GithubIds : UnitBegin(g)
    \/ \E g \in GithubIds : Live(g) /\ UnitUpsert(g)
    \/ \E g \in GithubIds : UnitFetch(g)
    \/ \E g \in GithubIds : Live(g) /\ UnitWrite(g)
    \/ \E g \in GithubIds : Live(g) /\ UnitUpdate(g)
    \/ \E g \in GithubIds : Live(g) /\ UnitCommit(g)
    \/ \E g \in GithubIds : LostUnitStatement(g)
    \/ BatchSettled
    \/ Delay
    \/ Disconnect
    \/ \E g \in GithubIds, file \in RemoteFiles : RemoteChange(g, file)
    \/ OtherCall
    \/ OtherOrgUpsert
    \/ \E kills \in BOOLEAN : OtherDisconnect(kills)

SpecConcurrent == Init /\ [][NextConcurrent]_vars

\* no request of the endpoint is being served
EndpointIdle == endpoint.st \in {"idle", "responded", "rejected"}
\* what octokit.repos.get yields for the repository of that name as the
\* remote stands: the repository that bears the name now, or a 404
RemoteRepoResponse(orgName, repoName) ==
    LET owners == {g \in Listed : RepoNames[names[g]] = repoName} IN
    IF orgName = OrgName /\ owners # {}
    THEN [ok |-> TRUE, status |-> 200,
          data |-> RepoDetailsOf(orgName, repoName, CHOOSE g \in owners : TRUE)]
    ELSE [ok |-> FALSE, status |-> 404, data |-> NoRow]
\* what octokit.repos.getContent yields to the endpoint here: a manifest
\* or a 404
FileOrNone ==
    {resp \in EndpointContentResponses :
        \/ resp.status = 404
        \/ resp.ok /\ resp.isFile /\ resp.content = Base64(TextOf(DocA))}

\* the number of requests the endpoint serves beside the syncs
MaxRequestsBesideSyncs == 2

\* the syncs of the organization and the requests of the endpoint, one
\* after the other on one store, while repositories are renamed on the
\* remote; the store itself does not fail
NextUniqueness ==
    \/ EndpointIdle /\ Call
    \/ OrgUpsert
    \/ ListPage
    \/ LoopTest
    \/ \E g \in GithubIds : UnitBegin(g)
    \/ \E g \in GithubIds : UnitUpsert(g)
    \/ \E g \in GithubIds : UnitFetch(g)
    \/ \E g \in GithubIds : UnitWrite(g)
    \/ \E g \in GithubIds : UnitUpdate(g)
    \/ \E g \in GithubIds : UnitCommit(g)
    \/ BatchSettled
    \/ Delay
    \/ Disconnect
    \/ \E g \in GithubIds, n \in NameIds : RemoteRename(g, n)
    \/ \E n \in NameIds :
          /\ pc = "idle" /\ endpoint.n < MaxRequestsBesideSyncs
          /\ Post("object", OrgName, RepoNames[n])
    \/ EndpointOrganization
    \/ EndpointDetails(RemoteRepoResponse(endpoint.orgName, endpoint.repoName))
    \/ \E id \in RandomIds : EndpointRepository(id)
    \/ \E resp \in FileOrNone : EndpointContent(resp)
    \/ EndpointRemove
    \/ EndpointUnmark
    \/ EndpointMark
    \/ EndpointWrite
    \/ EndpointCommit
    \/ EndpointCatch
    \/ EndpointDisconnect

SpecUniqueness == Init /\ [][NextUniqueness]_vars

\* the syncs of an organization whose listing may lose repositories
NextRemoval ==
    \/ Next
    \/ \E g \in GithubIds : RemoteRemove(g)

SpecRemoval == Init /\ [][NextRemoval]_vars

\* calls of batchAnalyze and of analyzeAndSave, one after the other
NextBatch ==
    \/ \E list \in PackageDataLists : BatchAnalyze(list)
    \/ BatchLoop
    \/ BatchUpsert
    \/ BatchDeletes
    \/ BatchCreates
    \/ BatchCommit
    \/ BatchFails
    \/ BatchPrepareThrows
    \/ BatchPeopleThrows
    \/ \E pkg \in Pkgs, gitInfo \in BatchGitInfos : AnalyzeAlone(1, pkg, gitInfo)
    \/ \E c \in Analyses : SaveProject(c)
    \/ \E c \in Analyses : ProjectUpsert(c)
    \/ \E c \in Analyses : SaveChildren(c)
    \/ \E c \in Analyses : CountStats(c)
    \/ \E c \in Analyses : UpdateStats(c)
    \/ \E c \in Analyses : CommitAnalysis(c)
    \/ \E c \in Analyses : AnalysisFails(c)
    \/ \E c \in Analyses : SaveProjectThrows(c)
    \/ \E c \in Analyses : SavePeopleThrows(c)

SpecBatch == Init /\ [][NextBatch]_vars

NextEndpoint ==
    \/ PostWithoutToken
    \/ \E json \in BodyKinds, orgName \in BodyOrganizations, repoName \in BodyRepoNames :
          Post(json, orgName, repoName)
    \/ EndpointOrganization
    \/ \E resp \in RepoResponses(endpoint.orgName, endpoint.repoName) : EndpointDetails(resp)
    \/ \E id \in RandomIds : EndpointRepository(id)
    \/ \E resp \in EndpointContentResponses : EndpointContent(resp)
    \/ EndpointRemove
    \/ EndpointUnmark
    \/ EndpointMark
    \/ EndpointWrite
    \/ EndpointStoreFails
    \/ EndpointCommit
    \/ EndpointCatch
    \/ EndpointDisconnect
    \/ EndpointDisconnectFails

SpecEndpoint == Init /\ [][NextEndpoint]_vars

\* a path is fetched and processed, or getPackageJson or the processor throws
PathOutcomes == {"ok", "threw"}

NextService ==
    \/ \E repos \in ServiceRepoLists : ProcessOrgPackageJsons(repos)
    \/ ServiceListFails
    \/ \E k \in 1..MaxServiceRepos :
          \/ TaskStart(k)
          \/ \E callbackThrows \in BOOLEAN : TaskWalked(k, callbackThrows)
          \/ \E outcome \in PathOutcomes : TaskPath(k, outcome)
          \/ \E outcome \in PathOutcomes : TaskProcessor(k, outcome)
          \/ TaskSucceeds(k)
          \/ TaskCatch(k)
          \/ \E callbackThrows \in BOOLEAN : TaskFinally(k, callbackThrows)
    \/ ServiceReturns

SpecService == Init /\ [][NextService]_vars

NextDeps ==
    \E projectId \in 1..2, pkg \in DepManifests : PrepareDependencies(projectId, pkg)

SpecDeps == Init /\ [][NextDeps]_vars

NextListing ==
    \/ \E listing \in Listings : GetOrgRepos(listing)
    \/ ListForOrg
    \/ ListForOrgFails

SpecListing == Init /\ [][NextListing]_vars

\* ------------------------------------------------------------------------
\* Properties
\* ------------------------------------------------------------------------
RepoOf(repos, g) == FindRepository(repos, g)
PkgOf(repos, pkgs, g) ==
    IF RepoOf(repos, g) = NoRow THEN NoRow
    ELSE FindPackageJson(pkgs, RepoOf(repos, g).id)

\* the run has computed what it returns: the finally block is next
Returning == pc = "finally"
ReturnsSummary == Returning /\ "success" \in DOMAIN ret
ReturnsSuccess == ReturnsSummary /\ ret.success

Settled(g) == unit[g].st = "settled"
\* the fetch of g ended with a status other than 200 and 404
TransientFetch(g) == unit[g].status \notin {0, 200, 404}
\* the unit of work of g ended in error: an exception reached the inner
\* catch, or the body took the branch of the other statuses
EndedInError(g) ==
    Settled(g) /\ (unit[g].result = "caught" \/ unit[g].body = "fetchError")

\* C1: in every committed store state and for every stored repository,
\* hasPackageJson is true if and only if a packageJson row with the id of
\* that repository exists.
C1_HasManifestIffRow ==
    \A r \in repositories :
        r.hasPackageJson <=> (\E p \in packageJsons : p.repositoryId = r.id)

\* a repository whose manifest was stored by the first sync has lost it, row
\* and flag, in the second
C1_Witness ==
    /\ clock = 2
    /\ \E r \in repositories, b \in before.repositories :
          /\ r.id = b.id /\ b.hasPackageJson /\ ~r.hasPackageJson
          /\ FindPackageJson(before.packageJsons, b.id) # NoRow
          /\ FindPackageJson(packageJsons, r.id) = NoRow

\* C2: when the listing succeeded, the run ends only after every listed
\* repository has reached a terminal outcome (committed or its own error),
\* and it ends with success, whichever units of work failed.
C2_FailureIsolation ==
    (Returning /\ organization # NoRow /\ Len(allRepos) = Len(OrgListing))
        => /\ \A g \in GithubIds : Settled(g)
           /\ ReturnsSuccess

\* the first repository failed, its batch sibling and the repository of the
\* next batch were committed
C2_Witness ==
    /\ Returning
    /\ unit[1].result = "caught"
    /\ unit[2].result = "committed" /\ unit[2].body = "stored"
    /\ unit[3].result = "committed"

\* C3, as claimed: after a fetch that ended with a status other than 200 and
\* 404, the Repository row and the Manifest row of the repository are the same
\* as before the unit of work, and errorCount is incremented.
C3_Original ==
    \A g \in GithubIds :
        (Settled(g) /\ TransientFetch(g)) =>
            /\ RepoOf(repositories, g) = RepoOf(before.repositories, g)
            /\ PkgOf(repositories, packageJsons, g)
                  = PkgOf(before.repositories, before.packageJsons, g)
            /\ errorCount >= 1

\* C3, amended: after such a fetch the Manifest row and the hasPackageJson
\* flag of the repository are the same as before (a repository not stored
\* before has no Manifest and a false flag), errorCount is incremented, and a
\* committed unit of work has refreshed the Repository row from the listing
\* with lastFetchedAt set to the time of the attempt.
C3_FetchErrorKeepsManifest ==
    \A g \in GithubIds :
        (Settled(g) /\ TransientFetch(g)) =>
            LET old == RepoOf(before.repositories, g)
                new == RepoOf(repositories, g)
            IN  /\ PkgOf(repositories, packageJsons, g)
                      = PkgOf(before.repositories, before.packageJsons, g)
                /\ old # NoRow =>
                      new.id = old.id /\ new.hasPackageJson = old.hasPackageJson
                /\ (old = NoRow /\ new # NoRow) => ~new.hasPackageJson
                /\ unit[g].result = "committed" =>
                      /\ new # NoRow
                      /\ new.lastFetchedAt = clock
                      /\ new.fullName = Descriptor(g).full_name
                /\ unit[g].result = "caught" => new = old
                /\ errorCount >= Cardinality({h \in GithubIds : Settled(h) /\ TransientFetch(h)})

\* a repository with a stored manifest met a transient fetch failure in a
\* later sync, and its unit of work was committed
C3_Witness ==
    \E g \in GithubIds :
        /\ Settled(g) /\ TransientFetch(g) /\ unit[g].result = "committed"
        /\ PkgOf(before.repositories, before.packageJsons, g) # NoRow
        /\ RepoOf(before.repositories, g).lastFetchedAt # clock

\* C4: once the unit of work of a repository whose fetch returned 404 is
\* committed, the repository has hasPackageJson false and no packageJson
\* row; and noPackageJsonCount counts exactly once every unit of work that
\* ran the 404 branch to its end, which each committed one did.
C4_NotFoundRemovesManifest ==
    /\ \A g \in GithubIds :
          (Settled(g) /\ unit[g].status = 404 /\ unit[g].result = "committed") =>
              /\ RepoOf(repositories, g) # NoRow
              /\ ~RepoOf(repositories, g).hasPackageJson
              /\ PkgOf(repositories, packageJsons, g) = NoRow
    /\ \A g \in GithubIds :
          (unit[g].status = 404 /\ unit[g].result = "committed") => unit[g].body = "removed"
    /\ noPackageJsonCount = Cardinality({g \in GithubIds : unit[g].body = "removed"})

\* a repository whose manifest was stored returned 404 and was committed
C4_Witness ==
    \E g \in GithubIds :
        /\ Settled(g) /\ unit[g].status = 404 /\ unit[g].result = "committed"
        /\ PkgOf(before.repositories, before.packageJsons, g) # NoRow
        /\ noPackageJsonCount = 1

\* rows without their timestamps
WithoutTimestamps(rows, stamps) ==
    {[f \in DOMAIN r \ stamps |-> r[f]] : r \in rows}
Clean(summary) ==
    /\ "success" \in DOMAIN summary
    /\ summary.success
    /\ summary.errorCount = 0

\* C5: a second sync in a row against an unchanged remote, neither sync
\* meeting a failure, leaves the same Organization, Repository and Manifest
\* rows (same ids, same fields but the timestamps) as the first and returns
\* the same successCount and noPackageJsonCount.
C5_Idempotent ==
    (Returning /\ clock >= 2 /\ ~remoteChanged /\ Clean(prevRet) /\ Clean(ret)) =>
        /\ organizations = before.organizations
        /\ WithoutTimestamps(repositories, {"lastFetchedAt"})
              = WithoutTimestamps(before.repositories, {"lastFetchedAt"})
        /\ WithoutTimestamps(packageJsons, {"fetchedAt"})
              = WithoutTimestamps(before.packageJsons, {"fetchedAt"})
        /\ ret.successCount = prevRet.successCount
        /\ ret.noPackageJsonCount = prevRet.noPackageJsonCount

\* the second of two clean syncs ends, with manifests stored and a
\* repository without one
C5_Witness ==
    /\ Returning /\ clock >= 2 /\ ~remoteChanged /\ Clean(prevRet) /\ Clean(ret)
    /\ ret.successCount = 2 /\ ret.noPackageJsonCount = 1
    /\ \E r \in repositories : r.lastFetchedAt = 2

\* the organization upsert or a listing page request failed
EarlyFailure == organization = NoRow \/ Len(allRepos) < Len(OrgListing)

\* C6: the run returns success=false, with a message, exactly when the
\* organization upsert or a listing page request failed, and then it has
\* written no Repository and no Manifest row; a failure of a unit of work
\* never makes success false.
C6_FailureOnlyBeforeBatches ==
    Returning =>
        /\ "success" \in DOMAIN ret /\ "message" \in DOMAIN ret
        /\ ret.success = FALSE <=> EarlyFailure
        /\ ret.success = FALSE =>
              /\ repositories = before.repositories
              /\ packageJsons = before.packageJsons

\* the second listing page failed in a sync over a store that holds rows
C6_Witness ==
    /\ ReturnsSummary /\ ~ret.success
    /\ Len(allRepos) = PER_PAGE
    /\ before.repositories # {}

\* C7, as claimed: no invocation raises an exception to its caller.
C7_NeverThrows == "exception" \notin DOMAIN ret

\* C8, as claimed: the summary of a completed run carries an errors list
\* with exactly one entry, naming the repository and carrying a message, for
\* each repository whose unit of work ended in error, so that the list is as
\* long as errorCount.
C8_ErrorsListed ==
    ReturnsSuccess =>
        /\ "errors" \in DOMAIN ret
        /\ Len(ret.errors) = ret.errorCount
        /\ Len(ret.errors) = Cardinality({g \in GithubIds : EndedInError(g)})
        /\ \A g \in GithubIds :
              EndedInError(g) =>
                  \E k \in DOMAIN ret.errors :
                      ret.errors[k].repo = names[g] /\ "message" \in DOMAIN ret.errors[k]

\* C9, as claimed: after a run that returns success=true, the three counters
\* add up to the number of listed repositories and successCount is the
\* number of repositories whose manifest write was committed.
C9_CountersPartition ==
    ReturnsSuccess =>
        /\ ret.successCount + ret.noPackageJsonCount + ret.errorCount = Len(allRepos)
        /\ ret.successCount = Cardinality({g \in GithubIds :
              unit[g].body = "stored" /\ unit[g].result = "committed"})

\* position of a repository in the listing and index of its batch
Pos(g) == CHOOSE k \in 1..Len(allRepos) : allRepos[k].id = g
BatchIndex(g) == (Pos(g) - 1) \div BATCH_SIZE

\* C10: no unit of work of a batch has started (no repository upsert, no
\* fetch) while a unit of work of an earlier batch has not settled, and the
\* batches are taken in listing order.
C10_BatchesSequential ==
    \A h \in GithubIds :
        /\ unit[h].st \in {"pending", "begun", "open", "fetched", "wrote", "ran"} =>
              pc = "batch" /\ h \in Batch(allRepos, i)
        /\ unit[h].st # "idle" =>
              \A g \in GithubIds : BatchIndex(g) < BatchIndex(h) => Settled(g)

\* the second batch is running after a first batch with a failed and a
\* committed unit of work
C10_Witness ==
    /\ pc = "batch" /\ i = BATCH_SIZE
    /\ unit[3].st = "open"
    /\ unit[1].result = "caught" /\ unit[2].result = "committed"

\* the number of batches of a listing of n repositories: ceil(n / BATCH_SIZE)
NumBatches(n) == (n + BATCH_SIZE - 1) \div BATCH_SIZE
\* the log of a run over n repositories: batch k at entry 2k - 1, every
\* batch but the last of BATCH_SIZE callbacks, one pause between two batches
ExpectedLog(n) ==
    [k \in 1..(IF n = 0 THEN 0 ELSE 2 * NumBatches(n) - 1) |->
        IF k % 2 = 0 THEN DelayEntry(2000)
        ELSE IF (k + 1) \div 2 < NumBatches(n) THEN BatchEntry(BATCH_SIZE)
        ELSE BatchEntry(n - (NumBatches(n) - 1) * BATCH_SIZE)]

\* C11: a run over n listed repositories forms exactly ceil(n / BATCH_SIZE)
\* batches, every batch but the last of BATCH_SIZE repositories and the last
\* of the remaining ones, and takes exactly one pause of 2000 ms between two
\* consecutive batches, none before the first and none after the last; at
\* every moment of the run the batches and pauses so far are a prefix of
\* that sequence.
C11_BatchesAndDelays ==
    /\ (pc \in {"loop", "batch", "delay"} \/ ReturnsSuccess) =>
          /\ Len(log) <= Len(ExpectedLog(Len(allRepos)))
          /\ log = SubSeq(ExpectedLog(Len(allRepos)), 1, Len(log))
    /\ ReturnsSuccess => log = ExpectedLog(Len(allRepos))
    /\ pc = "delay" => log[Len(log)].event = "batch"
    /\ pc = "batch" => log[Len(log)] = BatchEntry(Cardinality(Batch(allRepos, i)))

\* a run over three repositories has ended: a full batch, a pause, and a
\* last batch of one repository
C11_Witness ==
    /\ ReturnsSuccess
    /\ Len(allRepos) = NRepos
    /\ Len(log) = 2 * NumBatches(NRepos) - 1
    /\ log[Len(log)].n = NRepos - (NumBatches(NRepos) - 1) * BATCH_SIZE
    /\ \E k \in 1..Len(log) : log[k].event = "delay"

\* the call c committed, and no call committed the same project after it
LastCommitted(c) ==
    /\ analysis[c].st = "done"
    /\ \A d \in Analyses :
          (analysis[d].st = "done" /\ analysis[d].project.id = analysis[c].project.id)
              => analysis[d].committed <= analysis[c].committed

\* the child rows of the three manifests, written out by hand from the
\* manifests: what the four tables must hold for a project analysed from each
ExpectedDependencies(projectId, pkg) ==
    CASE pkg = PkgV1 ->
           <<[projectId |-> projectId, packageName |-> "lodash", version |-> "^4.0.0",
              dependencyType |-> "PRODUCTION"],
             [projectId |-> projectId, packageName |-> "react", version |-> "^18.0.0",
              dependencyType |-> "PRODUCTION"],
             [projectId |-> projectId, packageName |-> "jest", version |-> "^29.0.0",
              dependencyType |-> "DEVELOPMENT"]>>
      [] pkg = PkgV2 ->
           <<[projectId |-> projectId, packageName |-> "lodash", version |-> "^4.0.0",
              dependencyType |-> "PRODUCTION"]>>
      [] pkg = PkgAnon ->
           <<[projectId |-> projectId, packageName |-> "react", version |-> "true",
              dependencyType |-> "PEER"],
             [projectId |-> projectId, packageName |-> "0", version |-> "tar",
              dependencyType |-> "BUNDLED"]>>
ExpectedScripts(projectId, pkg) ==
    CASE pkg = PkgV1 ->
           <<[projectId |-> projectId, scriptName |-> "build", command |-> "tsc"]>>
      [] pkg = PkgV2 -> <<>>
      [] pkg = PkgAnon ->
           <<[projectId |-> projectId, scriptName |-> "test", command |-> "jest"],
             [projectId |-> projectId, scriptName |-> "lint", command |-> "eslint,."]>>
ExpectedKeywords(projectId, pkg) ==
    CASE pkg = PkgV1 -> <<[projectId |-> projectId, keyword |-> "web"]>>
      [] pkg = PkgV2 -> <<[projectId |-> projectId, keyword |-> "cli"]>>
      [] pkg = PkgAnon -> <<>>
ExpectedPeople(projectId, pkg) ==
    CASE pkg = PkgV1 ->
           <<[projectId |-> projectId, name |-> "Jane", email |-> "jane@x.io",
              url |-> Null, role |-> "AUTHOR"]>>
      [] pkg = PkgV2 -> <<>>
      [] pkg = PkgAnon ->
           <<[projectId |-> projectId, name |-> "Bob", email |-> Null,
              url |-> Null, role |-> "CONTRIBUTOR"]>>
ExpectedChildren(t, projectId, pkg) ==
    CASE t = "dependencies" -> ExpectedDependencies(projectId, pkg)
      [] t = "scripts" -> ExpectedScripts(projectId, pkg)
      [] t = "keywords" -> ExpectedKeywords(projectId, pkg)
      [] t = "people" -> ExpectedPeople(projectId, pkg)

\* C12: after a successful analyzeAndSave(pkg, gitInfo), the dependency,
\* script, keyword and person rows stored for the project are exactly the
\* rows derived from pkg, whatever rows the project had before: for each
\* manifest, the rows written out by hand above, and no others.
C12_ChildrenReplaced ==
    \A c \in Analyses :
        LastCommitted(c) =>
            \A t \in Tables :
                RowsOfProject(children[t], analysis[c].project.id)
                    = ExpectedChildren(t, analysis[c].project.id, analysis[c].pkg)

\* the project analysed from the first version was analysed again from the
\* second, which dropped a dependency: its row is gone
C12_Witness ==
    /\ analysis[1].st = "done" /\ analysis[1].pkg = PkgV1
    /\ analysis[2].st = "done" /\ analysis[2].pkg = PkgV2
    /\ analysis[2].project.id = analysis[1].project.id
    /\ analysis[1].committed < analysis[2].committed
    /\ Len(analysis[2].before.children["dependencies"]) = 3
    /\ Len(children["dependencies"]) = 1
    /\ \A k \in 1..Len(children["dependencies"]) :
          children["dependencies"][k].packageName # "react"

\* C13: in every committed store state, under every interleaving of
\* analyzeAndSave calls, the child rows of every project are entirely the
\* rows of the one manifest version the project row was written from, no
\* child row belongs to a project that is not stored, and a call that failed
\* has changed neither the project rows nor the child rows.
C13_AllOrNothing ==
    /\ \A p \in projects, t \in Tables :
          RowsOfProject(children[t], p.id)
              = ExpectedChildren(t, p.id, p.packageJsonHash.sha256)
    /\ \A t \in Tables : \A k \in 1..Len(children[t]) :
          \E p \in projects : p.id = children[t][k].projectId
    /\ \A c \in Analyses :
          (/\ analysis[c].st = "failed"
           /\ \A d \in Analyses \ {c} : analysis[d].committed <= analysis[c].began)
              => /\ projects = analysis[c].before.projects
                 /\ children = analysis[c].before.children

\* a call that was replacing the rows of a stored project by those of the
\* second version failed after its deletes and its first insert
C13_Witness ==
    /\ analysis[1].st = "done" /\ analysis[1].pkg = PkgV1
    /\ analysis[2].st = "failed" /\ analysis[2].pkg = PkgV2
    /\ analysis[2].project.id = analysis[1].project.id
    /\ analysis[2].stmt > Len(ChildTables)
    /\ analysis[2].began = 0

\* C14, as claimed: after a successful re-sync of a repository that had a
\* stored Manifest, every field of the stored row equals the value derived
\* from the newly fetched content alone.
C14_ResyncReplacesFields ==
    \A g \in GithubIds :
        (/\ Settled(g) /\ unit[g].body = "stored" /\ unit[g].result = "committed"
         /\ PkgOf(before.repositories, before.packageJsons, g) # NoRow) =>
            LET row == PkgOf(repositories, packageJsons, g)
                data == PackageJsonData(JSONParse(Base64Decode(remote[g].content)).value, clock)
            IN  \A f \in DOMAIN data \ {"fetchedAt"} :
                    row[f] = IF data[f] = Undefined THEN Null ELSE data[f]

\* the (owner, repo, path) a call was given
PathKey(c) ==
    <<Prop(analysis[c].gitInfo, "owner"), Prop(analysis[c].gitInfo, "repo"),
      Prop(analysis[c].gitInfo, "path")>>

\* C15, as claimed: two manifests analysed for different (owner, repo, path)
\* are never stored in the same Project row.
C15_OneRowPerPath ==
    \A c, d \in Analyses :
        (analysis[c].st = "done" /\ analysis[d].st = "done" /\ PathKey(c) # PathKey(d))
            => analysis[c].project.id # analysis[d].project.id

\* the unit of work of g was refused by a unique constraint
Refused(g) == unit[g].error = "unique constraint failed"

\* the repository upsert of the request the endpoint serves, or served
\* last, was refused by the store
EndpointRefused ==
    endpoint.step = "repository" /\ endpoint.error = "Unique constraint failed"
\* the github id the remote gave for the repository of the request belongs
\* to a stored row of another full name
EndpointGithubIdTaken ==
    /\ endpoint.repoDetails # NoRow
    /\ \E r \in endpoint.before.repositories :
          /\ r.githubId = endpoint.repoDetails.id
          /\ r.fullName # endpoint.repoDetails.full_name
\* the random id drawn for a new row is the id of a stored row
EndpointKeyTaken ==
    /\ endpoint.repoDetails # NoRow
    /\ \A r \in endpoint.before.repositories :
          r.fullName # endpoint.repoDetails.full_name
    /\ \E r \in endpoint.before.repositories : r.id \in RandomIds

\* C16: in every store state no two Repository rows share a full name or a
\* github id. A repository upsert keyed by github id (the sync) whose full
\* name belongs to another row fails its unit of work, which is counted as
\* an error and changes no row. A repository upsert keyed by full name (the
\* endpoint) whose github id belongs to another row fails its request, which
\* answers success = false with status 500 and changes no row of the three
\* tables; such an upsert never goes through, and an upsert is refused only
\* for a value another row holds.
C16_UniquenessEnforced ==
    /\ \A r1, r2 \in repositories :
          r1 # r2 => /\ r1.id # r2.id
                     /\ r1.fullName # r2.fullName
                     /\ r1.githubId # r2.githubId
    /\ \A g \in GithubIds :
          (pc # "idle" /\ Refused(g)) =>
              /\ Settled(g) /\ unit[g].result = "caught" /\ unit[g].repo = NoRow
              /\ RepoOf(repositories, g) = RepoOf(before.repositories, g)
              /\ PkgOf(repositories, packageJsons, g)
                    = PkgOf(before.repositories, before.packageJsons, g)
              /\ \A r \in repositories :
                    r.fullName = Descriptor(g).full_name => r.githubId # g
    /\ pc # "idle" => errorCount >= Cardinality({g \in GithubIds : Refused(g)})
    /\ (EndpointGithubIdTaken /\ endpoint.st # "repository") => EndpointRefused
    /\ endpoint.repository # NoRow => ~EndpointGithubIdTaken
    /\ EndpointRefused =>
          /\ EndpointGithubIdTaken \/ EndpointKeyTaken
          /\ endpoint.repository = NoRow
          /\ endpoint.st \in {"failed", "finally", "responded"}
          /\ endpoint.st \in {"failed", "finally"} => StoreNow = endpoint.before
          /\ endpoint.st = "responded" =>
                /\ endpoint.response.success = FALSE
                /\ endpoint.response.status = 500

\* a repository was renamed, and the endpoint was asked for it under its
\* new name: the upsert keyed by that full name carried the github id of the
\* stored row and was refused, the request answered 500; a second
\* repository was renamed to the former name of the first, and in the next
\* sync its unit of work was refused and counted, the run completed
C16_Witness ==
    /\ ReturnsSuccess
    /\ \E g \in GithubIds :
          /\ Refused(g)
          /\ RepoOf(before.repositories, g).fullName # Descriptor(g).full_name
          /\ \E r \in before.repositories :
                r.githubId # g /\ r.fullName = Descriptor(g).full_name
    /\ ret.errorCount = 1
    /\ endpoint.st = "responded"
    /\ EndpointRefused /\ EndpointGithubIdTaken
    /\ endpoint.response.status = 500

\* C17, as claimed: a request that keeps receiving rate-limit responses is
\* sent again at most 5 times, and once the fifth retry is rate-limited too
\* it fails without being sent again.
C17_AtMostFiveRetries ==
    /\ request.resent <= 5
    /\ (request.resent = 5 /\ request.last.rateLimit /\ request.st # "answered")
           => request.st = "failed"

\* the content requests in flight: the units of work awaiting their fetch
InFlight == Cardinality({g \in GithubIds : unit[g].st = "open"})
\* the values the API concurrency limit may be configured to
ConcurrencyLimits == 1..BATCH_SIZE

\* C18, as claimed: at every moment of a sync the number of remote requests
\* in flight does not exceed the configured API concurrency limit, whatever
\* the limit is set to, a limit below the batch size included.
C18_InFlightWithinLimit == \A limit \in ConcurrencyLimits : InFlight <= limit

\* the errors counted for the unit of work of g: by the branch of the other
\* statuses, and by the inner catch
ErrorsCounted(g) ==
    (IF unit[g].body = "fetchError" THEN 1 ELSE 0)
        + (IF unit[g].result = "caught" THEN 1 ELSE 0)
\* the transaction of g was aborted after it began, as a timeout aborts it
Aborted(g) ==
    /\ Settled(g) /\ unit[g].result = "caught"
    /\ unit[g].error \in {"store error", "transaction failed"}
    /\ unit[g].repo # NoRow

\* C19, as claimed: a unit of work whose transaction is aborted by its
\* timeout leaves no write committed, is counted as exactly one error, and
\* its batch siblings still settle on their own outcome.
C19_TimeoutOneError ==
    \A g \in GithubIds :
        Aborted(g) =>
            /\ RepoOf(repositories, g) = RepoOf(before.repositories, g)
            /\ PkgOf(repositories, packageJsons, g)
                  = PkgOf(before.repositories, before.packageJsons, g)
            /\ ErrorsCounted(g) = 1
            /\ errorCount = Cardinality({h \in GithubIds : ErrorsCounted(h) > 0})

\* what a run meeting no failure of the store, of the remote or of the
\* client returns, and the manifests it leaves stored
Found(g) ==
    /\ remote[g].exists /\ Truthy(Base64Decode(remote[g].content))
    /\ JSONParse(Base64Decode(remote[g].content)).ok
SequentialSummary ==
    [success |-> TRUE, message |-> "Sync complete.",
     successCount |-> Cardinality({g \in GithubIds : Found(g)}),
     noPackageJsonCount |-> Cardinality({g \in GithubIds : ~remote[g].exists}),
     errorCount |-> Cardinality({g \in GithubIds : remote[g].exists /\ ~Found(g)})]

\* C20, as claimed: an invocation that runs while an invocation for another
\* organization runs and ends returns the summary, and leaves the rows, of
\* a run on its own.
C20_ConcurrentAsSequential ==
    ReturnsSuccess =>
        /\ ret = SequentialSummary
        /\ \A g \in GithubIds :
              /\ IF remote[g].exists /\ Truthy(Base64Decode(remote[g].content)) /\ ~Found(g)
                 THEN RepoOf(repositories, g) = RepoOf(before.repositories, g)
                 ELSE RepoOf(repositories, g) # NoRow
              /\ Found(g) => PkgOf(repositories, packageJsons, g) # NoRow
              /\ ~remote[g].exists => PkgOf(repositories, packageJsons, g) = NoRow

\* the remote file of g is text that JSON.parse rejects
Unparsable(g) == remote[g].exists /\ Base64Decode(remote[g].content) = Garbage
\* the unit of work of g has ended in the running invocation, after its fetch
\* was answered by the remote (which does not change during an invocation)
FetchAnswered(g) ==
    pc # "idle" /\ Settled(g) /\ unit[g].repo # NoRow /\ unit[g].body # "fetchError"
\* the errors counted for the units of work of the repositories up to g
RECURSIVE ErrorsCountedUpTo(_)
ErrorsCountedUpTo(g) == IF g = 0 THEN 0 ELSE ErrorsCounted(g) + ErrorsCountedUpTo(g - 1)

\* C21: when the content fetched for a repository cannot be parsed, its unit
\* of work ends in the inner catch with a SyntaxError and counts exactly one
\* error; the hasPackageJson flag and the Manifest row of the repository
\* (indeed its whole Repository row) are the same as before the unit of
\* work; and the run continues: it ends with success once every listed
\* repository has settled.
C21_ParseFailureIsolated ==
    /\ errorCount = ErrorsCountedUpTo(NRepos)
    /\ \A g \in GithubIds :
          (FetchAnswered(g) /\ Unparsable(g)) =>
              /\ unit[g].result = "caught" /\ unit[g].error = "SyntaxError"
              /\ ErrorsCounted(g) = 1
              /\ RepoOf(repositories, g) = RepoOf(before.repositories, g)
              /\ PkgOf(repositories, packageJsons, g)
                    = PkgOf(before.repositories, before.packageJsons, g)
              /\ pc \in {"batch", "delay", "loop", "finally"}
              /\ Returning => ReturnsSuccess /\ \A h \in GithubIds : Settled(h)

\* a repository whose manifest was stored by the first sync serves unparsable
\* text in the second: the run completed with one error, the manifest kept,
\* and the repository of the next batch committed
C21_Witness ==
    /\ ReturnsSuccess /\ clock = 2
    /\ \E g \in GithubIds :
          /\ FetchAnswered(g) /\ Unparsable(g) /\ unit[g].error = "SyntaxError"
          /\ RepoOf(before.repositories, g) # NoRow
          /\ RepoOf(before.repositories, g).hasPackageJson
          /\ PkgOf(repositories, packageJsons, g) # NoRow
          /\ BatchIndex(g) = 0
    /\ ret.errorCount = 1
    /\ unit[NRepos].result = "committed"

\* the answers octokit.repos.getContent can give to the content request:
\* every file body with status 200, and a request error with status 404,
\* with another status, or with none
ContentResponses ==
    {ContentOk(f) : f \in RemoteFiles \ {NoFile}}
        \cup {ContentErr(st) : st \in TransientStatuses \cup {404}}
\* the three classes of the claim
Success(fetched) == fetched.status \in 200..299 /\ fetched.hasContent
Absent(fetched) == fetched.status = 404 /\ ~fetched.hasContent
TransientFailure(fetched) ==
    fetched.status \notin (200..299) \cup {404} /\ ~fetched.hasContent

\* C22, as claimed: getPackageJsonContent classifies every answer in exactly
\* one of three ways, success (a 2xx status with the decoded content), absent
\* (404, no content), transient failure (the other status, or 500 when the
\* error has none, no content); and a unit of work takes the store path only
\* for a success, the delete path only for an absent file, and the branch of
\* the other statuses only for a transient failure.
C22_ThreeWayClassification ==
    /\ \A resp \in ContentResponses :
          LET fetched == getPackageJsonContent(resp) IN
          /\ Cardinality({c \in {"success", "absent", "transient"} :
                CASE c = "success" -> Success(fetched)
                  [] c = "absent" -> Absent(fetched)
                  [] c = "transient" -> TransientFailure(fetched)}) = 1
          /\ Success(fetched) <=> resp.ok
          /\ resp.ok => /\ fetched.content = Base64Decode(resp.data.content)
                        /\ fetched.status = resp.status
          /\ Absent(fetched) <=> (~resp.ok /\ resp.status = 404)
          /\ (~resp.ok /\ resp.status # 404) =>
                fetched.status = (IF resp.status = 0 THEN 500 ELSE resp.status)
    /\ \A g \in GithubIds :
          /\ unit[g].body = "stored" => unit[g].status \in 200..299
          /\ unit[g].body = "removed" => unit[g].status = 404
          /\ unit[g].body = "fetchError" => unit[g].status \notin (200..299) \cup {404}

\* the pages a listing of n repositories takes: the full ones and a short one
PagesOf(n) == n \div PER_PAGE + 1

\* C23: getOrgRepos requests the pages 1, 2, 3, ... in order, each of the
\* page size; it stops after the first page that is shorter than the page
\* size, so a listing of n repositories takes n div size + 1 requests (one
\* of them for an empty page when n is a multiple of the size); it returns,
\* in listing order, exactly the repositories of the listing that are
\* neither archived nor disabled; and a failed page request makes the call
\* fail, without a result.
C23_PagesUntilShort ==
    /\ lister.requested = [k \in 1..Len(lister.requested) |-> k]
    /\ Len(lister.requested) <= PagesOf(Len(lister.listing))
    /\ \A k \in 1..Len(lister.sizes) :
          lister.sizes[k] = (IF k < PagesOf(Len(lister.listing)) THEN PER_PAGE
                             ELSE Len(lister.listing) % PER_PAGE)
    /\ lister.st = "paging" =>
          /\ lister.page = Len(lister.requested) + 1
          /\ \A k \in 1..Len(lister.sizes) : lister.sizes[k] = PER_PAGE
    /\ lister.st = "returned" =>
          /\ Len(lister.requested) = PagesOf(Len(lister.listing))
          /\ lister.sizes[Len(lister.sizes)] < PER_PAGE
          /\ lister.result.returned
          /\ lister.result.value =
                SelectSeq(lister.listing, LAMBDA r : ~r.archived /\ ~r.disabled)
    /\ lister.st = "thrown" =>
          /\ "exception" \in DOMAIN lister.result
          /\ "value" \notin DOMAIN lister.result

\* a listing of two full pages was returned after a third, empty page, with
\* an archived and a disabled repository left out
C23_Witness ==
    /\ lister.st = "returned"
    /\ Len(lister.listing) = 2 * PER_PAGE
    /\ Len(lister.requested) = 3
    /\ lister.sizes[3] = 0
    /\ \E k, j \in 1..Len(lister.listing) :
          /\ lister.listing[k].archived /\ ~lister.listing[k].disabled
          /\ lister.listing[j].disabled /\ ~lister.listing[j].archived
    /\ Len(lister.result.value) = 2 * PER_PAGE - 2

\* the identities of the stored repositories, the names of the organizations
RepoIdentities(repos) == {<<r.id, r.githubId>> : r \in repos}
OrgNames(orgs) == {o.name : o \in orgs}

\* C24: no step of a sequence of syncs deletes a Repository or an
\* Organization row: the stored repository identities and the stored
\* organization names only grow; and no step changes the Repository row or
\* the Manifest of a repository the listing no longer holds.
C24_NeverDeletes ==
    [][/\ RepoIdentities(repositories) \subseteq RepoIdentities(repositories')
       /\ OrgNames(organizations) \subseteq OrgNames(organizations')
       /\ \A g \in GithubIds :
             names'[g] = Unlisted =>
                 /\ RepoOf(repositories', g) = RepoOf(repositories, g)
                 /\ PkgOf(repositories', packageJsons', g)
                       = PkgOf(repositories, packageJsons, g)]_vars

\* a repository whose manifest was stored left the organization; the next
\* sync, over the remaining repositories, one of them without manifest, has
\* completed and the row and the manifest of the repository are still stored
C24_Witness ==
    /\ ReturnsSuccess /\ clock = 2
    /\ Len(allRepos) = NRepos - 1
    /\ ret.noPackageJsonCount >= 1
    /\ \E g \in GithubIds :
          /\ names[g] = Unlisted
          /\ RepoOf(repositories, g) # NoRow
          /\ PkgOf(repositories, packageJsons, g) # NoRow
          /\ RepoOf(repositories, g).lastFetchedAt = 1

\* the person rows of a project with the role AUTHOR
Authors(projectId) ==
    SelectSeq(RowsOfProject(children["people"], projectId), LAMBDA r : r.role = "AUTHOR")

\* C25, as claimed: after any sequence of analyzeAndSave and batchAnalyze
\* calls, every project has at most one person row with the role AUTHOR, and
\* no person row has an empty name.
C25_AtMostOneAuthor ==
    /\ \A q \in projects : Len(Authors(q.id)) <= 1
    /\ \A k \in 1..Len(children["people"]) : children["people"][k].name # ""

\* the dependency classes of the claim, in the order of the result
ClaimedClasses ==
    << <<"dependencies", "PRODUCTION">>, <<"devDependencies", "DEVELOPMENT">>,
       <<"peerDependencies", "PEER">>, <<"optionalDependencies", "OPTIONAL">>,
       <<"bundledDependencies", "BUNDLED">>, <<"bundleDependencies", "BUNDLED">> >>
\* the entries of the k-th dependency map of a manifest, names with their
\* versions: none when the key is absent or its value is no map of names to
\* versions (a string, or the array of names that bundledDependencies is in
\* a manifest)
MapEntries(pkg, k) ==
    LET key == ClaimedClasses[k][1] IN
    IF key \in DOMAIN pkg /\ pkg[key].type = "object" THEN pkg[key].entries ELSE <<>>
\* the number of entries of the maps before the k-th
RECURSIVE EntriesBefore(_, _)
EntriesBefore(pkg, k) ==
    IF k = 1 THEN 0 ELSE EntriesBefore(pkg, k - 1) + Len(MapEntries(pkg, k - 1))

\* C26, as claimed: prepareDependenciesData returns a flat list with exactly
\* one tuple (name, version, class) per entry of each dependency map that is
\* present, map after map, with the class of the map it came from
\* (PRODUCTION, DEVELOPMENT, PEER, OPTIONAL, and BUNDLED for both
\* bundledDependencies and bundleDependencies); its length is the sum of the
\* sizes of the present maps; a key that is absent or whose value is no map
\* contributes nothing. The version of a tuple is the entry's own text where
\* the entry gives a string.
C26_OneTuplePerEntry ==
    depsCall.st = "returned" =>
        LET pkg == depsCall.pkg
            rows == depsCall.rows
        IN  /\ Len(rows) = EntriesBefore(pkg, Len(ClaimedClasses) + 1)
            /\ \A k \in 1..Len(ClaimedClasses) :
                  \A j \in 1..Len(MapEntries(pkg, k)) :
                      LET row == rows[EntriesBefore(pkg, k) + j]
                          entry == MapEntries(pkg, k)[j]
                      IN  /\ row.projectId = depsCall.projectId
                          /\ row.packageName = entry[1]
                          /\ row.dependencyType = ClaimedClasses[k][2]
                          /\ entry[2].type = "string" => row.version = entry[2].s

\* a step of the request failed after its transaction began
EndpointStepFailed ==
    endpoint.began /\ endpoint.step # "none"
\* the request has ended: POST has answered or rejected
EndpointEnded == endpoint.st \in {"responded", "rejected"}

\* C27: POST /api/fetch-package-json is atomic: when a step fails after the
\* transaction began (the repository is missing on the remote, a fetch fails
\* otherwise, the manifest cannot be parsed, the store fails), the three
\* tables are as they were when the request arrived, and the answer is
\* success = false with status 404 for a missing repository, 500 otherwise.
C27_EndpointAtomic ==
    /\ endpoint.st = "failed" => StoreNow = endpoint.before
    /\ (EndpointEnded /\ EndpointStepFailed) =>
          /\ StoreNow = endpoint.before
          /\ endpoint.response.success = FALSE
          /\ endpoint.response.status = IF endpoint.step = "missing" THEN 404 ELSE 500

\* C28: for every organization name that is not yet stored, the
\* organization upsert of POST /api/fetch-package-json creates the row,
\* whatever organizations are stored (the store itself not failing).
C28_NewOrganizationCreated ==
    (/\ endpoint.began
     /\ endpoint.st # "organization"
     /\ FindOrganization(endpoint.before.organizations, endpoint.orgName) = NoRow
     /\ ~(endpoint.step = "store" /\ endpoint.organization = NoRow))
    => /\ endpoint.organization \in endpoint.tx.organizations
       /\ endpoint.organization.name = endpoint.orgName

\* C29: in processOrgPackageJsons, processedRepos never exceeds totalRepos at
\* a progress callback and equals totalRepos when the call returns: every
\* repository is counted as processed exactly once.
C29_ProcessedOnce ==
    /\ service.callbacks > 0 => service.progress.processedRepos <= service.progress.totalRepos
    /\ service.st = "returned" => service.stats.processedRepos = service.stats.totalRepos

\* a listing of the tree, or of a directory the walk enters, failed
\* otherwise than with a 404
RECURSIVE WalkFailed(_)
WalkFailed(tree) ==
    \/ tree.resp = "error"
    \/ /\ tree.resp = "ok"
       /\ \E k \in DOMAIN tree.items :
             /\ tree.items[k].type = "dir"
             /\ tree.items[k].name \notin skipDirs
             /\ ~StartsWithDot(tree.items[k].name)
             /\ WalkFailed(tree.items[k].tree)

\* C30: a repository whose directory walk hits a non-404 failure is counted
\* in errorRepos with an entry in errors, and is not treated like a
\* repository without a manifest.
C30_WalkFailureReported ==
    service.st = "returned" =>
        /\ \A k \in DOMAIN service.repos :
              WalkFailed(service.repos[k]) =>
                  \E e \in DOMAIN service.stats.errors :
                      /\ service.stats.errors[e].repo = RepoNames[k]
                      /\ "path" \notin DOMAIN service.stats.errors[e]
        /\ service.stats.errorRepos
              >= Cardinality({k \in DOMAIN service.repos : WalkFailed(service.repos[k])})

\* the batch processBatch has just finished with, and whether it committed
LastBatch == BatchSlice(batchCall.list, batchCall.i - batchSize)
JustCommitted == batchCall.st = "loop" /\ batchCall.last = "committed"
JustFailed == batchCall.st = "loop" /\ batchCall.last = "failed"
\* the last entry of the batch that resolves to the project name of entry k
LastEntryFor(k) ==
    CHOOSE j \in 1..Len(LastBatch) :
        /\ batchCall.projectsData[j].name = batchCall.projectsData[k].name
        /\ \A h \in 1..Len(LastBatch) :
              batchCall.projectsData[h].name = batchCall.projectsData[k].name => h <= j

\* C31: after processBatch commits a batch, the child rows stored for each
\* project of the batch are exactly the rows derived from one manifest, the
\* last entry of the batch that resolves to the name of the project, also
\* when two entries of the batch resolve to the same name.
C31_LastEntryWins ==
    JustCommitted =>
        \A k \in 1..Len(LastBatch) :
            LET project == FindProject(projects, batchCall.projectsData[k].name) IN
            /\ project # NoRow
            /\ \A t \in Tables :
                  RowsOfProject(children[t], project.id)
                      = PrepareChildren(t, project.id, LastBatch[LastEntryFor(k)].packageJson)

\* the number of the batch that starts at index `from` of the list
BatchNumber(from) == (from \div batchSize) + 1
\* the entries of the batches the errors name
RECURSIVE FailedEntries(_, _)
FailedEntries(errors, k) ==
    IF k > Len(errors) THEN 0
    ELSE Len(BatchSlice(batchCall.list, (errors[k].batch - 1) * batchSize))
             + FailedEntries(errors, k + 1)

\* C32: batchAnalyze over a list of n entries processes the batches of
\* batchSize entries in order and returns success + failed = n; a batch
\* whose processBatch fails changes no project row and no child row, all
\* its entries are counted as failed with one entry of errors naming the
\* batch, and the batches after it are still processed.
C32_BatchAllOrNothing ==
    LET r == batchCall.results
        n == Len(batchCall.list)
    IN  /\ batchCall.st # "idle" =>
              /\ batchCall.i % batchSize = 0
              /\ r.success + r.failed = Min(batchCall.i, n)
              /\ \A k \in 1..Len(r.errors) :
                    /\ r.errors[k].batch \in 1..BatchNumber(batchCall.i - 1)
                    /\ k > 1 => r.errors[k - 1].batch < r.errors[k].batch
              /\ r.failed = FailedEntries(r.errors, 1)
        /\ batchCall.st \in {"upserts", "deletes", "creates", "commit"} =>
              /\ batchCall.i < n
              /\ projects = batchCall.before.projects
              /\ children = batchCall.before.children
        /\ batchCall.returned => r.success + r.failed = n /\ batchCall.i >= n
        /\ JustFailed =>
              /\ projects = batchCall.before.projects
              /\ children = batchCall.before.children
              /\ Len(r.errors) > 0
              /\ r.errors[Len(r.errors)].batch = BatchNumber(batchCall.i - batchSize)

\* the first batch of a list of three entries failed, the second batch was
\* processed all the same and its commit changed the store, and the call
\* returned two failed entries and one success
C32_Witness ==
    /\ batchCall.returned
    /\ Len(batchCall.list) = 3
    /\ batchCall.results.failed = 2 /\ batchCall.results.success = 1
    /\ Len(batchCall.results.errors) = 1 /\ batchCall.results.errors[1].batch = 1
    /\ batchCall.last = "committed"
    /\ projects # batchCall.before.projects

\* C33: in every committed state of the store, after any sequence of
\* analyzeAndSave and batchAnalyze calls, the totalDependencies, totalScripts
\* and totalKeywords of each project whose totals were ever written equal the
\* numbers of dependency, script and keyword rows stored for the project.
C33_TotalsMatchRows ==
    \A p \in projects :
        "totalDependencies" \in DOMAIN p =>
            /\ p.totalDependencies = Len(RowsOfProject(children["dependencies"], p.id))
            /\ p.totalScripts = Len(RowsOfProject(children["scripts"], p.id))
            /\ p.totalKeywords = Len(RowsOfProject(children["keywords"], p.id))

====
